--------------------------- MODULE MacroExpansion ---------------------------
(***************************************************************************)
(* Macros: defmacro, and the type checker's walk over lists whose head may *)
(* be one (preprocessor_plugins.cpp).                                      *)
(*                                                                         *)
(* The reader's lists are objects of one heap that everybody points into.  *)
(* A macro keeps the list it was defined with, and a use of it fills the   *)
(* arguments into that very list and has it type checked: the argument and *)
(* the template are shared, never copied.  A list is a sequence of items,  *)
(* the _value of its cells; the items of a symbol or a constant are the    *)
(* cells of its type.  No evaluator is registered for the preprocessor, so *)
(* quote is all the body of a macro can apply.                             *)
(*                                                                         *)
(* Each top level form is given to type_check on its own: a throw gives up *)
(* the form, and what was registered and filled in before it stays.        *)
(***************************************************************************)
EXTENDS Integers, SequencesExt

CONSTANTS
  Programs,     \* sequences of top level forms, each a tree
  Functions,    \* the names module::find_function resolves
  MaxDepth      \* bound: nested calls the C++ stack has room for

VARIABLES
  program,      \* the forms as written
  heap,         \* the objects made by the reader
  forms,        \* the forms still to be type checked
  special_forms,\* the macros defined: their arguments and their body
  focus,        \* the object to type check next, or None
  frames,       \* the calls being type checked
  asts,         \* what each form so far was checked to, or Rejected
  expansions,   \* history: how often each definition was expanded
  phase         \* check, crashed or overflow

vars == <<program, heap, forms, special_forms, focus, frames, asts, expansions, phase>>

None == 0
Tree(kind, name, items) == [kind |-> kind, name |-> name, items |-> items]
Rejected == Tree("rejected", "", << >>)
Nothing == Tree("nothing", "", << >>)

-----------------------------------------------------------------------------
(* The heap.                                                                *)

RECURSIVE Store(_, _)
\* The objects of a tree, itself the last, for a heap of n.
Store(tree, n) ==
  LET keep(acc, item) == LET h == acc.heap \o Store(item, n + Len(acc.heap))
                         IN  [heap |-> h, ids |-> Append(acc.ids, n + Len(h))]
      all == FoldLeft(keep, [heap |-> << >>, ids |-> << >>], tree.items)
  IN  Append(all.heap, [tree EXCEPT !.items = all.ids])

\* What an object looks like.
RECURSIVE Written(_, _)
Written(h, id) ==
  [h[id] EXCEPT !.items = [k \in DOMAIN @ |-> Written(h, @[k])]]

IsList(x) == x.kind = "list"
IsSymbol(x) == x.kind = "symbol"

\* A list cast to a symbol at its head.
HasHead(x, head) == IsList(x) /\ IsSymbol(head)

-----------------------------------------------------------------------------
(* quote.                                                                   *)

\* A step of the preprocessor ends ok, in a throw, or with no room on the stack.
Outcome(h, how) == [heap |-> h, how |-> how]

\* Mutant of Quote: quote_list does not go into the lists it holds.
QuoteFirstLevel(h, id, symbols, room) ==
  LET quote_lisp_object(acc, k) ==
        LET x == acc.heap[acc.heap[id].items[k]]
            arg == acc.heap[x.items[2]]
        IN  IF acc.how = "ok" /\ IsList(x) /\ acc.heap[Head(x.items)].name = "unquote"
            THEN IF arg.name \in DOMAIN symbols
                 THEN [acc EXCEPT !.heap[id].items[k] = symbols[arg.name]]
                 ELSE Outcome(acc.heap, "throw")
            ELSE acc
  IN  FoldLeft(quote_lisp_object, Outcome(h, "ok"), [k \in DOMAIN h[id].items |-> k])

\* Mutant of Quote: what an unquote is replaced by is quoted in its turn.
RECURSIVE QuoteArguments(_, _, _, _)
QuoteArguments(h, id, symbols, room) ==
  LET quote_lisp_object(acc, k) ==
        LET item == acc.heap[id].items[k]
            x    == acc.heap[item]
            arg  == acc.heap[x.items[2]]
        IN  CASE acc.how # "ok" -> acc
              [] acc.how = "ok" /\ IsList(x) /\ acc.heap[Head(x.items)].name = "unquote" ->
                   IF arg.name \in DOMAIN symbols
                   THEN QuoteArguments([acc.heap EXCEPT ![id].items[k] = symbols[arg.name]],
                                       symbols[arg.name], symbols, room - 1)
                   ELSE Outcome(acc.heap, "throw")
              [] OTHER -> QuoteArguments(acc.heap, item, symbols, room - 1)
  IN  IF room = 0 THEN Outcome(h, "overflow")
      ELSE FoldLeft(quote_lisp_object, Outcome(h, "ok"), [k \in DOMAIN h[id].items |-> k])

\* quote_list, quote_array and the types of quote_lisp_object: each unquote
\* among the items is replaced by what its symbol stands for.
RECURSIVE Quote(_, _, _, _)
Quote(h, id, symbols, room) ==
  LET quote_lisp_object(acc, k) ==
        LET item == acc.heap[id].items[k]
            x    == acc.heap[item]
            head == acc.heap[Head(x.items)]
            arg  == acc.heap[x.items[2]]
        IN  CASE acc.how # "ok" -> acc
              [] acc.how = "ok" /\ ~IsList(x) -> Quote(acc.heap, item, symbols, room - 1)
              [] acc.how = "ok" /\ IsList(x) /\ ~IsSymbol(head) -> Outcome(acc.heap, "throw")
              [] acc.how = "ok" /\ HasHead(x, head) /\ head.name = "unquote" ->
                   IF IsSymbol(arg) /\ arg.name \in DOMAIN symbols
                   THEN [acc EXCEPT !.heap[id].items[k] = symbols[arg.name]]
                   ELSE Outcome(acc.heap, "throw")
              [] OTHER -> Quote(acc.heap, item, symbols, room - 1)
  IN  IF room = 0 THEN Outcome(h, "overflow")
      ELSE FoldLeft(quote_lisp_object, Outcome(h, "ok"), [k \in DOMAIN h[id].items |-> k])

\* lisp_apply: only (quote (...)) can be applied.
CanApply(id) ==
  /\ IsList(heap[id])
  /\ LET head == heap[Head(heap[id].items)]
     IN  IsSymbol(head) /\ head.name = "quote"
  /\ IsList(heap[heap[id].items[2]])

\* The body of a macro, item by item.
Preprocess(body, symbols) ==
  FoldLeft(LAMBDA acc, id :
             CASE acc.how # "ok" -> acc
               [] acc.how = "ok" /\ CanApply(id) ->
                    Quote(acc.heap, heap[id].items[2], symbols, MaxDepth)
               [] OTHER -> Outcome(acc.heap, "throw"),
           Outcome(heap, "ok"), body)

\* The arguments of a use, by name.  The last of two with one name counts.
Bindings(arguments, items) ==
  [name \in {heap[id].name : id \in Range(arguments)} |->
     items[1 + CHOOSE k \in DOMAIN arguments :
                 /\ heap[arguments[k]].name = name
                 /\ \A j \in k + 1 .. Len(arguments) : heap[arguments[j]].name # name]]

-----------------------------------------------------------------------------
(* Type checking.                                                           *)

Checking == phase = "check"
Object == heap[focus]
Top == Last(frames)

\* A form is done, and so are the calls around it.
Finish(result) ==
  /\ asts' = Append(asts, result)
  /\ frames' = << >>
  /\ focus' = None

\* Mutant of Deliver: every node is the form's.
DeliverToForm(waiting, ast) ==
  /\ asts' = Append(asts, ast)
  /\ frames' = waiting
  /\ focus' = None

\* A node goes to the frame that waits for it, or is the form's.
Deliver(waiting, ast) ==
  IF waiting = << >> THEN Finish(ast)
  ELSE /\ frames' = [waiting EXCEPT ![Len(waiting)].done = Append(@, ast)]
       /\ focus' = None
       /\ UNCHANGED asts

Throw ==
  /\ Finish(Rejected)
  /\ UNCHANGED <<program, heap, forms, special_forms, expansions, phase>>

\* A null cell is dereferenced, or the stack has no room.
Stop(how) ==
  /\ phase' = how
  /\ UNCHANGED <<program, heap, forms, special_forms, focus, frames, asts, expansions>>

IsDefmacro(x) == IsList(x) /\ heap[Head(x.items)].name = "defmacro"

\* compiler_impl::type_check, the next form.  One that is no defmacro is checked
\* as any list.
BeginForm ==
  /\ Checking /\ focus = None /\ frames = << >> /\ forms # << >>
  /\ LET form == heap[Head(forms)] IN
     /\ ~IsDefmacro(form)
     /\ IF HasHead(form, heap[Head(form.items)])
        THEN focus' = Head(forms) /\ UNCHANGED <<asts, frames>>
        ELSE Finish(Rejected)
  /\ forms' = Tail(forms)
  /\ UNCHANGED <<program, heap, special_forms, expansions, phase>>

\* macro_def_plugin::type_check.  A definition takes the place of an earlier one.
DefineMacro ==
  /\ Checking /\ focus = None /\ frames = << >> /\ forms # << >>
  /\ LET form  == heap[Head(forms)]
         items == form.items
     IN  /\ IsDefmacro(form)
         /\ IF IsSymbol(heap[items[2]]) /\ heap[items[3]].kind = "array"
            THEN /\ special_forms' =
                      (heap[items[2]].name :> [arguments |-> heap[items[3]].items,
                                               body |-> SubSeq(items, 4, Len(items))])
                      @@ special_forms
                 /\ Finish(Nothing)
            ELSE Finish(Rejected) /\ UNCHANGED special_forms
  /\ forms' = Tail(forms)
  /\ UNCHANGED <<program, heap, expansions, phase>>

\* A symbol or a constant: the node is made of it as it now is.
CheckAtom ==
  /\ Checking /\ focus # None
  /\ Object.kind \in {"symbol", "constant"}
  /\ Deliver(frames, Written(heap, focus))
  /\ UNCHANGED <<program, heap, forms, special_forms, expansions, phase>>

\* An array, or a list whose head is no symbol.
CheckOther ==
  /\ Checking /\ focus # None
  /\ Object.kind = "array" \/ (IsList(Object) /\ ~IsSymbol(heap[Head(Object.items)]))
  /\ Throw

\* A list with a symbol at its head.
Applies(name) ==
  /\ Checking /\ focus # None
  /\ IsList(Object)
  /\ LET head == heap[Head(Object.items)] IN IsSymbol(head) /\ head.name = name

Frame(form, name, rest) == [form |-> form, name |-> name, rest |-> rest, done |-> << >>]

\* type_check_function_application, its function found: the arguments are next.
OpenCall(name) ==
  /\ Applies(name) /\ name \notin DOMAIN special_forms /\ name \in Functions
  /\ frames' = Append(frames, Frame("call", name, Tail(Object.items)))
  /\ focus' = None
  /\ UNCHANGED <<program, heap, forms, special_forms, asts, expansions, phase>>

\* Neither a macro nor a function.  quote and unquote are no more than names here.
Unresolved ==
  /\ Checking /\ focus # None
  /\ \E name \in {x.name : x \in Range(heap)} \ (Functions \union DOMAIN special_forms) :
       Applies(name)
  /\ Throw

\* macro_preprocessor::type_check.  Arguments beyond the macro's are dropped; one
\* that is missing is a null cell.
Expand(name) ==
  /\ Applies(name) /\ name \in DOMAIN special_forms
  /\ LET macro == special_forms[name]
         quoted == Preprocess(macro.body, Bindings(macro.arguments, Object.items))
     IN  IF Len(Object.items) <= Len(macro.arguments) THEN Stop("crashed")
         ELSE IF Len(frames) >= MaxDepth \/ quoted.how = "overflow" THEN Stop("overflow")
         ELSE /\ heap' = quoted.heap
              /\ expansions' = [expansions EXCEPT ![Head(macro.body)] = @ + 1]
              /\ IF quoted.how = "ok"
                 THEN /\ frames' = Append(frames, Frame("macro", name, << >>))
                      /\ focus' = heap[Last(macro.body)].items[2]
                      /\ UNCHANGED asts
                 ELSE Finish(Rejected)
              /\ UNCHANGED <<program, forms, special_forms, phase>>

\* The type checker is called on the next argument.
NextArgument ==
  /\ Checking /\ focus = None /\ frames # << >>
  /\ Top.rest # << >>
  /\ focus' = Head(Top.rest)
  /\ frames' = [frames EXCEPT ![Len(frames)].rest = Tail(@)]
  /\ UNCHANGED <<program, heap, forms, special_forms, asts, expansions, phase>>

\* The arguments of a call are checked.
CloseCall ==
  /\ Checking /\ focus = None /\ frames # << >>
  /\ Top.form = "call" /\ Top.rest = << >>
  /\ Deliver(Front(frames),
             Tree("list", "", <<Tree("symbol", Top.name, << >>)>> \o Top.done))
  /\ UNCHANGED <<program, heap, forms, special_forms, expansions, phase>>

\* What a macro expanded to is checked: its node is the node of the use.
CloseMacro ==
  /\ Checking /\ focus = None /\ frames # << >>
  /\ Top.form = "macro" /\ Top.done # << >>
  /\ Deliver(Front(frames), Head(Top.done))
  /\ UNCHANGED <<program, heap, forms, special_forms, expansions, phase>>

\* The reader's result, form by form.
Read == LET all == Store(Tree("program", "", program), 0)
        IN  [heap |-> Front(all), forms |-> Last(all).items]

Init ==
  /\ program \in Programs
  /\ heap = Read.heap /\ forms = Read.forms
  /\ special_forms = << >>
  /\ focus = None /\ frames = << >> /\ asts = << >>
  /\ expansions = [id \in DOMAIN heap |-> 0]
  /\ phase = "check"

Names == {x.name : x \in Range(heap)}

Next ==
  \/ BeginForm \/ DefineMacro
  \/ CheckAtom \/ CheckOther \/ Unresolved
  \/ \E name \in Names : OpenCall(name) \/ Expand(name)
  \/ NextArgument \/ CloseCall \/ CloseMacro

Spec == Init /\ [][Next]_vars

-----------------------------------------------------------------------------
(* What a macro means.                                                      *)

\* A template with its unquotes replaced, and whether it can be.
RECURSIVE Fill(_, _)
Fill(tree, args) ==
  IF IsList(tree) /\ Head(tree.items).name = "unquote"
  THEN args[tree.items[2].name]
  ELSE [tree EXCEPT !.items = [k \in DOMAIN @ |-> Fill(@[k], args)]]

RECURSIVE CanFill(_, _)
CanFill(tree, args) ==
  /\ IsList(tree) => IsSymbol(Head(tree.items))
  /\ IF IsList(tree) /\ Head(tree.items).name = "unquote"
     THEN IsSymbol(tree.items[2]) /\ tree.items[2].name \in DOMAIN args
     ELSE \A k \in DOMAIN tree.items : CanFill(tree.items[k], args)

\* A definition, as written: the list of a template is filled in, but is itself
\* no unquote.
CanUse(definition, args) ==
  \A k \in 4 .. Len(definition.items) :
    LET body == definition.items[k] IN
    /\ IsList(body) /\ Head(body.items).name = "quote" /\ IsList(body.items[2])
    /\ \A j \in DOMAIN body.items[2].items : CanFill(body.items[2].items[j], args)

Use(definition, args) ==
  LET template == Last(definition.items).items[2]
  IN  [template EXCEPT !.items = [k \in DOMAIN @ |-> Fill(@[k], args)]]

Arguments(definition, items) ==
  LET names == definition.items[3].items
  IN  [name \in {n.name : n \in Range(names)} |->
         items[1 + CHOOSE k \in DOMAIN names :
                     /\ names[k].name = name
                     /\ \A j \in k + 1 .. Len(names) : names[j].name # name]]

\* What a tree is, with every use of a macro replaced by its definition.
RECURSIVE Meaning(_, _)
Meaning(tree, macros) ==
  IF ~IsList(tree) THEN IF tree.kind = "array" THEN Rejected ELSE tree
  ELSE LET head == Head(tree.items) IN
       CASE ~IsSymbol(head) -> Rejected
         [] IsSymbol(head) /\ head.name \in DOMAIN macros ->
              LET definition == macros[head.name]
                  args == Arguments(definition, tree.items)
              IN  IF CanUse(definition, args)
                  THEN Meaning(Use(definition, args), macros) ELSE Rejected
         [] IsSymbol(head) /\ head.name \in Functions \ DOMAIN macros ->
              LET args == [k \in 1 .. Len(tree.items) - 1 |-> Meaning(tree.items[k + 1], macros)]
              IN  IF Rejected \in Range(args) THEN Rejected
                  ELSE [tree EXCEPT !.items = <<head>> \o args]
         [] OTHER -> Rejected

\* The definitions in force at the k-th form: the latest of each name.
Defines(tree, name) ==
  /\ IsList(tree) /\ Head(tree.items).name = "defmacro"
  /\ tree.items[2].name = name /\ tree.items[3].kind = "array"
InForce(k) ==
  [name \in {program[j].items[2].name : j \in {i \in 1 .. k - 1 : \E n \in Names : Defines(program[i], n)}} |->
     program[CHOOSE j \in 1 .. k - 1 : /\ Defines(program[j], name)
                                       /\ \A i \in j + 1 .. k - 1 : ~Defines(program[i], name)]]

IsDefinition(tree) == IsList(tree) /\ Head(tree.items).name = "defmacro"

-----------------------------------------------------------------------------
(* Properties.                                                              *)

\* Where the checker is: every form waits, is being checked, or has its result.
TypeOK ==
  /\ \A id \in DOMAIN heap : Range(heap[id].items) \subseteq DOMAIN heap
  /\ focus \in DOMAIN heap \union {None}
  /\ \A k \in DOMAIN frames :
       /\ frames[k].form \in {"call", "macro"}
       /\ frames[k].form = "macro" => frames[k].rest = << >> /\ Len(frames[k].done) <= 1
  /\ DOMAIN expansions = DOMAIN heap
  /\ phase \in {"check", "crashed", "overflow"}
  /\ Len(asts) + Len(forms) + (IF focus # None \/ frames # << >> THEN 1 ELSE 0)
       = Len(program)

\* No definition has been expanded twice.
EachOnce == \A id \in DOMAIN expansions : expansions[id] <= 1

\* A form is checked to what it means with the macros in force where it stands.
\* One that is no list is none.
AsWritten ==
  \A k \in DOMAIN asts :
    \/ IsDefinition(program[k])
    \/ asts[k] = IF IsList(program[k]) THEN Meaning(program[k], InForce(k)) ELSE Rejected

\* As long as no definition is expanded twice, every form is checked to what it
\* means: arguments where the template has them, at every depth and in types, a
\* definition in place of an earlier one, and a form that cannot be filled thrown out.
ExpandsAsWritten == EachOnce => AsWritten

\* Filling a template in writes nothing outside the definitions, as long as none is
\* expanded twice: the arguments a use shares with the template stay what they are.
UsesStayAsWritten ==
  [][EachOnce' /\ heap' # heap =>
       \A k \in DOMAIN program :
         IsDefinition(program[k]) \/ Written(heap', Read.forms[k]) = program[k]]_vars

\* corpus/basic2.cclj:6: a use of combine "should eval to" its template with the
\* arguments of that use.
EveryUseAsWritten == AsWritten
=============================================================================
