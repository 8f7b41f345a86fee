# A verification development for cclj

cclj is a small lisp compiler over LLVM: a text is read into lisp data, macros are
expanded, each form is type checked into a syntax tree, and the tree is compiled to LLVM
IR and run by its JIT. The directory holds TLA+ models of its components, TLC
configurations that check them on small instances, and TLAPS proofs about the five whose
correctness is the least visible in the code: scope resolution, the session, the access
to members of datatypes, memory, and the graph that is generated for a function.

All definitions are translated from `src/cclj/src/cclj` and `src/cclj/include/cclj`; `PROJECT.json` maps each of them to its
lines. In every module a comment beginning `Mutant of` marks a deliberately wrong variant
of the definition that follows it: with it in place of the right one, a property must fail.


## 1. Inventory

### 1.1 Components

| component | source (under `src/cclj/src/cclj/` and `src/cclj/include/cclj/`) | state | operations |
|---|---|---|---|
| reader | `compiler.cpp:60-330` | text, cursor, the calls of its recursive descent | `read`, `parse_list`, `parse_array`, `parse_type`, `parse_symbol_or_constant`, `find_delimiter`, `eatwhite` |
| scope resolution | `src/cclj/module.cpp:855-1170`, `module.h:540-600`, `language_plugins.cpp`, `base_plugins.cpp` | `_local_variable_typecheck_stack`, `_local_variable_compile_stack`, the C++ stack of plugins, ast nodes | `type_check` and `compile_second_pass` of every plugin, `type_check_variable_access`, `lookup_compile_variable`, `load_variable`, `store_variable`, `variable_scope` |
| module and session | `module.cpp:570-860`, `1160-1260`, `compiler.cpp:340-500` | `_symbol_map`, `_init_statements`, `_init_function`, the `llvm::Module` | `type_check`, `compile`, `execute`, `define_function`, `append_init_ast_node`, `compile_first_pass`, `compile_second_pass` |
| code generation | `language_plugins.cpp`, `base_plugins.cpp`, `module.cpp:150-300` | the builder's insert block, the blocks of a function, results of nodes | `compile_second_pass` of if, let, for, set, calls, symbols, constants; `initialize_function`, `initialize_assign_block` |
| macro preprocessor | `preprocessor_plugins.cpp` | lisp data shared between definitions and uses, macros in force, argument bindings | `defmacro`, `macro_preprocessor::type_check`, `quote`, `unquote` |
| memory | `allocator.cpp`, `allocator.h`, `slab_allocator.h`, `pool.h`, `lisp_types.cpp`, `compiler.cpp` | outstanding blocks with headers and back-pointer bytes, slabs, free list, factory buffers, the program's own blocks | allocate and deallocate of the tracking allocator, `construct`, `create_*`, `rt_malloc`/`rt_free`, destructors |
| datatypes, accessor chains, array indices | `module.cpp:304-566`, `680-804`, `870-957`, `1041-1117` | `_symbol_map` and who deletes its nodes, `_datatypes`, the properties of a datatype, a chain of lookups | `define_variable`, `define_datatype`, `define_function`, `add_field`, `add_accessor`, both walks of a chain, `~module_impl`. Plugins reach all this through `module.h`; those in the repository define no datatype and build chains of one name |
| interning | `string_table.cpp`, `qualified_name_table.cpp`, `type_library.cpp`, `data_buffer.h` | three maps, the keys of two are views over the entries | `register_str`, `register_name`, `get_type_ref` |
| lowering of names and types | `compiler_plugin.cpp:80-230` | `_type_map` of a compile, name buffer | `type_ref_type`; the names and `add_exit_block` are not modelled |
| numeric operators, constants | `base_plugins.cpp`, `llvm_base_numeric_type_helper.h` | none beside the functions they register | `register_binary_functions`, `type_check_numeric_constant`, `implement_binary_function` |
| containers | `variant.h`, `option.h`, `invasive_list.h` | | taken at their meaning; `remove`, `insert` and `push_front` of a list have no callers |
| garbage collector | `garbage_collector.h` | | declarations without definitions |
| test driver, build, vendored gtest and pcre | | | no logic of the project's own |

### 1.2 How the components interact

All of cclj is single threaded. `compiler_impl` owns everything: its constructor makes the
allocator, the tables, the module and registers the plugins; `execute` is `type_check`,
`compile`, run. `type_check` calls the reader, which returns one sequence of forms; for each
form it runs the preprocessor plugins and then the plugin of its head. Plugins call back
into `reader_context::_type_checker` for their children, so the C++ stack is the state of
the walk, and the local variables in force are kept beside it, in a member of the module.
The syntax tree outlives the walk, and `compile` walks it again with a second stack.
Macros, the reader and the type checker share the same lisp data, by pointer.

What makes the behaviour hard is not concurrency but

* two walks that must agree although nothing passes between them but the tree,
* exceptions, thrown from any depth, after which the same compiler goes on being used,
* calls of `type_check`, `compile` and `execute` in any order, over state that only grows,
* mutation in place of data that others point to (quote),
* comparison by address of names and types whose table keys are views of memory that is
  copied, swapped and freed,
* insert positions in half-built graphs that later emissions make stale,
* arithmetic of addresses and distances in one byte.

`PROJECT.json` lists these hazards one by one, at the line where each bites, with the
properties that would catch it.

### 1.3 What makes each component correct

* *Scope resolution*: lexical scoping; the second walk finds what the first found; scopes
  are empty between units whatever is thrown; a unit that type checks compiles.
* *Reader*: what it accepts is exactly a closed text, no token is lost or moved; what it
  rejects has a reason; it ends.
* *Session*: a form is added whole or not at all; signatures are unique; what `compile`
  returns is complete and is all of the program so far.
* *Code generation*: a well-formed graph whose executions are those of the body as written.
* *Macros*: a use means its definition filled in, and expansion writes nothing else.
* *Memory*: aligned and disjoint blocks, every one freed by its own address, no leaks.
* *Datatypes*: every node has one owner; the second walk of a chain goes to the members the
  first one type checked, whatever has been defined since.
* *Interning*: one reference per content and one content per reference, for as long as the
  compiler lives.
* *Lowering*: one LLVM type per type in a compile, complete when it is handed out.
* *Numeric operators*: each computes what it says for the signedness and width of its type.


## 2. The modules

### 2.1 Structure

| module | what it is |
|---|---|
| `LexicalScope` | abstract: a stack of scopes a name is bound in and resolved against; what the type checker promises |
| `ScopeResolution` | both walks of a unit; refines `LexicalScope` |
| `ScopeInvariant` | the inductive invariant of `ScopeResolution` |
| `StackLemmas` | lemmas on `Append`, `Front`, `Last`, `Max`, `Min` used as a stack is used |
| `ScopeResolution_proofs` | the theorems |
| `LexicalScope_proofs` | that `ScopeResolution` implements `LexicalScope` |
| `Reader` | the reader as a machine with an explicit stack of calls |
| `ReaderGrammar` | the reference: the tokens and bracket structure of a text, defined without a cursor |
| `ProgramGrowth` | abstract: a program that only grows, by whole forms |
| `ModuleSession` | one compiler and the calls made on it; refines `ProgramGrowth` |
| `SessionInvariant` | the inductive invariant of `ModuleSession` |
| `ModuleSession_proofs` | the theorems |
| `CodeGen` | the control flow graph of a function, and two machines that run it and the body side by side |
| `CodeGenInvariant` | the inductive invariant of `CodeGen` |
| `CodeGen_proofs` | the theorems |
| `MacroExpansion` | the heap of lisp data, definitions and uses |
| `AllocatorContract` | abstract: what an allocator promises its client |
| `TrackingAllocator` | headers, padding and the back-pointer byte |
| `SlabAllocator`, `ObjectPool` | the two users of the tracking allocator that cut their own pieces |
| `CompilerMemory` | composes the three with the factory's buffers and the program's own blocks; refines `AllocatorContract` |
| `MemoryInvariant` | the inductive invariant of `CompilerMemory` |
| `CompilerMemory_proofs` | the theorems |
| `ModuleSymbols` | the symbol table: variables, functions and datatypes, who owns their nodes, and the table of datatypes by type |
| `Datatypes` | the properties of a datatype, its fields and the struct made of them |
| `VariableAccess` | both walks of a chain of names, ordinals and computed values; composes with the two above |
| `AccessInvariant` | the inductive invariant of `VariableAccess` |
| `VariableAccess_proofs` | the theorems |
| `Interning` | the tables of strings, names and types, and the memory their keys view |
| `NumericOperators` | the registrations of the operators, integer constants, what the instructions compute; no state |
| `CompilerTables` | composes the two with the constructor of `compiler_impl`, calls of operators and the lowering of types |
| `TablesInvariant` | the inductive invariant of `CompilerTables` |
| `CompilerTables_proofs` | the theorems |
| `MC*` | instances for TLC |

Recursive operators occur only in `ReaderGrammar` and `MacroExpansion`; nothing with a theorem
uses those two.

### 2.2 Scope resolution

A *unit* is a `defn` or one top-level statement. The C++ stack of plugins inside
`type_check` is `frames`; what their callees have returned is `nodes`; the module's member is
`tscopes`. One action per step a plugin takes between two calls of the type checker:
`BeginUnit`, `CheckConstant`, `CheckSymbol`, `OpenForm` (let, for, if), `OpenSet`, `OpenCall`,
`BindLocal`, `EndBindings`, `CloseCondition`, `CloseScope`, `CloseIf`, `CloseSet`, `CloseCall`, and `Malformed`,
the throws on the shape of a form. A throw from any depth unwinds every `variable_scope`
(`Reject`). The children of a plugin
are chosen by TLC as it goes, so the units checked are all units within the bound and not a
list of examples.

The tree is kept in the order of its second walk, one instruction per node plus the entry
of a scope and the binding of a variable: `code`. `BeginCompile`, the `Emit` actions, `EndUnit` and
`Unwind` (after a throw) execute it
with `cscopes` and `results`, looking each name up again the way `lookup_compile_variable` does: it
stops at a *value*, where the type checker stops at a *name*. This difference, void locals
(which have no value) and functions (which have no value either) are why the two could
disagree. `at` of an entry is the declaration site it stands for, which is history, read by no
guard; so are `env` and `stk` of an instruction.

The symbol table is a constant here, and its growth the matter of `ModuleSession` and `ModuleSymbols`. A `defn` is
type checked and compiled one directly after the other; in the code all units of a text are
checked before any is compiled. Since both stacks are empty between units (`NoScopeLeaks`),
the order cannot matter, which is the reason to state it.

Left out: arguments of a `defn` of type void (`initialize_function` dereferences null for them).

### 2.3 Reader

`Reader` has the text, the cursor `cur`, and `stack`, the `parse_*` functions under way with what each
has collected. Each action is one turn of the loop of the function on top: `ReadForm` of `read`,
`ParseListItems` and `ParseArrayItems` of the two loops, `ParseType` of `parse_type`. Characters are the
classes the code tells apart. `Nesting` of `ReaderGrammar` says whether a text is closed, open or
has a stray bracket, and `Tokens` what it is made of, from the text alone.

### 2.4 Module and session

`defs` is `_symbol_map` flattened to the order of definition; the overload list of a name is the
subsequence of its definitions. A call of `type_check` is `BeginTypeCheck`, then `CheckDefn` or
`CheckStatement` per form, each of which may throw, then `EndTypeCheck`; a call of `compile` is
`BeginCompile` (or `EndTypeCheck` of an `execute`), then `FirstPassSymbol` per symbol, `FirstPassInit`,
`SecondPassSymbol` per symbol, `SecondPassInit`, `Return`. `llvm` is the module of LLVM, which gains a
value for each symbol at each `compile`. A form has a fault, the step in which it throws, in place of a body: what may be
wrong in a body is the matter of `ScopeResolution`. The passes walk the ordered `_symbol_map`: names by
their first definition, and under a name its overloads.

### 2.5 Code generation

A body is built while it is compiled: `size` counts its nodes. `blocks` are the basic blocks made,
`placed` those inserted in the function, `insert` the builder's. `frames` is the C++ stack of
`compile_second_pass` calls, each with the locals it has declared and the blocks it has made,
and `results` what their children have returned. The children of a node are chosen as the
walk goes, so the bodies are all that type check, within the bound.

The body as written is kept beside the graph in `tokens`: a linear program in which each
instruction of the programmer has one token, *do* this, *test* and go elsewhere if it fails, or
*jump*. Its targets are set from the structure of if and for (a part begins where it is written,
a loop goes back to its condition), never from the blocks. After `EndFunction` the phase is `run`:
the graph is executed one instruction at a time, a conditional branch taken either way, and
`tokens` with the same choices from `place`. `RunsAsWritten` compares the two at every step, which
is stronger than any comparison of shapes. `known` is, for each block, what has been
computed on every way into it, and `anchored` whether no alloca has gone behind the branch of the
entry block. All of these are history and read by no guard.

A `set` stores to an argument, to a variable of a let or for, or, as `store_variable` does, not
at all if its target is a module variable; what such a variable holds is not part of what a
body computes here (6.5). The result of the verifier is ignored, as in the code.

### 2.6 Macros

Lisp data is a heap from addresses to cells, since sharing is what matters: `quote` writes through
the pointers of the template it is given. `Programs` are the definitions and uses of
`MCMacroExpansion`: templates of one to three levels, types, another macro inside, an argument that
does not exist, no template at all, redefinitions, uses nested in uses.

### 2.7 Memory

A block has an address, its chunk (what malloc returned) and the byte in front of it that holds
the distance. malloc may return any free address that is aligned for it. Numbers are scaled: a
word of 2 bytes, a `uint8_t` of 16 values (`ByteSize`). `CompilerMemory` has one action per way the
compiler or the program allocates or frees, and then the destructors in the reverse of the
order of `compiler_impl`'s members: first the nodes of the syntax tree, one by one in the order
of `_destruct_list`, then their slabs, the factory's pool and buffers, the records of the type
library. `DestructObject` gives an object back to its pool while the compiler runs, which
`pool.h` offers and the factory has no use for.

### 2.8 The tables

`strings` maps a text to the address of its copy, one of the `room` given out so far; the empty text has
none and is the literal `""`. `buffers` is the memory that `data_buffer`s view: the vector of each name, the specializations behind
each `type_ref`, and the vectors of callers, which end with the call. A vector goes to the first
free place, so a key that outlives what it views reads something else soon. `RegisterString`,
`RegisterName` and `GetTypeRef` return the new tables with the reference, as the functions do;
`AskString`, `AskName` and `AskType` are the calls of clients (reader, plugins, module), which keep what
they are handed (`handed`, history). Contents are addresses: two names are the same if they
are made of the same strings *by address*, so an error in one table spreads to the next.

`CompilerTables` begins with the constructor. `RegisterOperator` is one turn of the loop of
`register_numeric_binary_fn`, which defines one overload; `NextRegistration` goes to the next list of types,
or the next operator; `DefineRuntime` is rt, malloc and free. After that clients intern (`ClientStep`), call
an operator on two constants (`Evaluate`, `Return`), or compile: `BeginCompile`, `SecondPass`, `EndCompile`, and
between them the types that are met. All of these intern names of their own, down to the
literals that `to_base_numeric_type` compares with.

Lowering is the recursion of `type_ref_type` and `do_get_type_ref`, with the calls under way in
`lowering.open`. `Lower` is a call from outside: it answers from the cache or enters the type there with
a null. `LowerPart` is a turn of the loop over what the innermost type is made of: a part that the cache
has, null or not, is taken on, another is entered first. `EndLower` puts the LLVM type in the place of the
null, and `LowerThrows` is the throw for a type without a case, which ends the compile and its
cache. `type_ref_type` keeps an iterator into the `unordered_map` across the calls for the parts,
whose insertions may rehash it (`compiler_plugin.cpp:204`). The elements stay where they are, and with
the usual libraries the iterator leads to its element still, which is what the model has.
`NumericOperators` has the table of registrations in the order of the code; what the instructions
of LLVM compute on bits is external, what the operators mean on numbers (`Meaning`) is the
reference. Floating point values are numbers and not-a-number with their order.

Left out: the type a constant without one is given, and the names of LLVM values.

### 2.9 Datatypes and access to members

`made` are the nodes of variables, functions and datatypes in the order of their `new`, `freed`
those deleted, `symbols` the `_symbol_map` that owns them, and `datatypes` the map `_datatypes`, which keeps
the first datatype of a type. A node is made before its name is looked up, so a name that is
taken costs the node (`AddSymbol`).

An access is a name and a chain whose entries are names, ordinals or values the program
computes. `BeginCheck`, `CheckPointer`, `CheckMember`, `CheckNothing` and `EndCheck` are the turns of the loop of
`type_check_variable_access`, and the accesses it gives a type are the nodes of the program
(`accesses`). A compile is `BeginCompile` and, for each access, `BeginLookup`, the turns of the
loop of `lookup_compile_variable`, one action per branch, and `EndLookup`. Its result is a type and the indices of a
getelementptr. Definitions come between the two. Two branches of the second walk are errors
of the program: `LookupNoDatatype` follows a null pointer (`stage` is then `undefined`), `LookupThrows` ends
the compile. `path`, the members the type check has passed, is history. An `int32_t` has `2 * HalfInt` values.

Left out: what the interface of `module.h` stores and nothing reads (static properties,
operators and their policies), the compilation of getters and setters, which are functions
like others, and the local scopes, which are those of 2.2.


## 3. The runs

Each passing run also has, for each of its properties, a mutant that breaks it.

| run | question | bounds | what it shows |
|---|---|---|---|
| `MCScope` | do the type checker's scopes implement `LexicalScope`, and does the second walk agree with the first? | instructions and open plugins together up to `MaxCode` 6; three names: a module variable, a function with a void argument, and one the module does not have; argument lists of one name and of one name twice | yes, the second for units that read only values. Six hold a let inside an argument scope that shadows an argument or rebinds a name and reads it, an `if`, a `for`, a call with a void argument, and a throw inside three scopes. Deeper nesting is left to the theorems of 4.1. `IInv` is checked here before it is proved. |
| `MCScopeOverload` | is a miscalled function rejected? | `MaxCode` 4 | no, see 6.1 |
| `MCReader` | does the reader read what is written? | texts of up to 5 of 9 characters (66k texts) | yes. Five characters hold `(a\|1)`, `a\|[(]`, a comment inside a list and every pair of brackets that do not match |
| `MCReaderStray` | does `read` end on every text? | 3 of 3 characters | no, see 6.2 |
| `MCSession` | what does a compiler guarantee over many calls, some of which throw? | texts of up to 2 forms of 10, 7 symbols and statements (three are builtins), 3 compiles | the four properties below, among them that a compile has *all* statements so far (6.6); two compiles are what it takes for a value of the first to be stale in the second, and the third has both behind it. `IInv` of `SessionInvariant` is checked here before it is proved. |
| `MCCodeGen` | does the graph run as the body is written? | functions of 0 or 1 arguments, 4 nodes and bindings | yes: four nodes hold an if in each part of an if or a for, a let around them, and a set of its variable |
| `MCCodeGenLet` | does the graph pass LLVM's verifier? | no arguments, 4 nodes | not always, see 6.3 |
| `MCMacro` | does a use mean what it is written as? | programs of up to 4 forms, depth 8 | as long as no definition is expanded twice |
| `MCMacroSecondUse` | and without this condition? | same | no, see 6.4 |
| `MCTables` | are references equal exactly for equal contents, do the operators compute what they say, is a type lowered to one LLVM type, and only it? | 3 calls of clients, names and specializations of up to 2 parts, texts `""` and `+`, one float type, one signed and one unsigned integer type of 2 bits, a `long` of 3 bits, constants -2 to 4 | yes. Three calls hold a type, a tuple of it and a compile that lowers both, in either order, or two registrations with an operator between them; 2 bits have all cases of sign, wrapping, division and comparison, and constants that do not fit |
| `MCMemory` | is the allocator sound, and does the compiler give everything back? | 53 addresses, 4 blocks at once, slabs of 8 | yes, for the sizes and alignments in 6.5. Four blocks hold two slabs, a large node between them and a buffer or a type. `IInv` of `MemoryInvariant` is checked here before it is proved |
| `MCDatatypes` | does the second walk of a chain go where the first one went, and is every node deleted once? | 3 nodes, 2 properties of each datatype out of four (two fields, a void field, an accessor), one access of a chain of up to 3 entries, ordinals 0, 1 and 8 with an `int32_t` of 3 bits | yes, where it says anything (6.5). Three nodes hold a variable and a datatype of its type with another of the same or of its field's type; two properties, a field behind each other kind; three entries, a pointer to a struct, its accessor by ordinal, and what comes after |

The properties, by run:

* `NoScopeLeaks`: between units both stacks of scopes are empty, whatever was thrown.
  `PluginsRestoreScopes`: a plugin that returns leaves the scopes as it found them.
  `TypeCheckIsLexical`: the refinement.
* `StacksAligned`: at each node the second walk has the scopes and results the first had.
  `PassesAgree`: it finds the declaration the first found, and stores where it should.
  `CheckedUnitsCompile`: a unit that reads only values never throws in it.
  `CallsPassTheirArguments`: a call passes a value exactly for each argument that is not void, in its place.
* `ReadsEveryToken`, `AcceptsOnlyClosedText`, `RejectsForAReason`, `StopsWhenNotStray`.
* `SignaturesUnique`: a name is one variable or functions that differ in arguments.
  `CompiledCodeIsComplete`: each function in what `compile` returns has been compiled once, in
  this compile, and calls only such functions. `CompilesWholeProgram`: it runs every
  statement so far and has the type of the last. `ProgramOnlyGrows`: the refinement of `ProgramGrowth`.
* `BlocksWellFormed`, `PhisNamePredecessors`, `UsesAreDefined`, `RunsAsWritten`.
* `ExpandsAsWritten`, `UsesStayAsWritten`.
* `HeadersIntact`: the byte before each block still holds its distance. `KeepsContract`: the
  refinement of `AllocatorContract`. `OpenSlabIsLast`, `FreeListIsSound`: the bookkeeping of the two
  users. `OnlyProgramsLeak`: after the destructors only the program's own blocks are left.
  `DestructorsFindNodes`: what is still to be destructed is a node whose memory is not given back.
* `NodesOwnedOnce`: a node is held by one slot of the symbol table until it is deleted, and a
  datatype that is found by its type is not deleted. `TypesAgree`: the second walk ends with the
  type of the first, or with none where there is nothing to load from. `SameMembers`: each
  index of its getelementptr is the one of the member that was type checked.
* `EqualIfSame`: references handed out are equal exactly if what was asked for is.
  `ReferencesLive`: they still read as what was asked for. `OperatorsCompute`: the constructor does
  not throw, and an operator on two numbers its type represents gives their sum, quotient
  or comparison, wrapped to the type. `TypesLowerOnce`: within a compile a type has one LLVM type,
  never null, made of those its parts have in the cache; and no two types are one struct.

Bounds are the constants whose comment begins `bound:`. `CHECK_DEADLOCK FALSE` stands where the
system really stops: a reader that has read its text, a function that has returned, a
program of macros that is expanded, a compiler or a module that is destroyed, clients that
have made all their calls. Scope resolution and
sessions go on for ever and are checked for deadlock.

*Fairness* is assumed in one place, weak fairness of the reader's `Next`: the reader is a loop in
its caller's thread, with nothing to wait for, so it takes a step as long as it has one. The
other modules state safety only. They need no liveness: each walk is a recursion over a
finite tree.


## 4. The proofs

### 4.1 Scope resolution

`ScopeResolution_proofs` proves, for every set of names, types and special forms, every symbol
table, every argument list and every bound, that satisfy the assumptions of `ScopeResolution`:

| theorem | statement |
|---|---|
| `Invariance` | `Spec => []IInv` |
| `TypeCorrect` | `Spec => []TypeOK` |
| `ScopesNeverLeak` | `Spec => []NoScopeLeaks` |
| `WalksAligned` | `Spec => []StacksAligned` |
| `LookupsAlwaysAgree` | `Spec => []PassesAgree` |
| `CheckedAlwaysCompiles` | `Spec => []CheckedUnitsCompile` |
| `CallsAlwaysPassArguments` | `Spec => []CallsPassTheirArguments` |
| `ScopesRestored` | `Spec => PluginsRestoreScopes` |
| `SearchIsLexical` (`LexicalScope_proofs`) | `Spec => TypeCheckIsLexical`: the type checker implements `LexicalScope` |

*Assumptions.* `TypesAssumption`: void and i1 are different types, and a constant is never void.
`SymbolsAssumption`: module variables are not void, a function has an overload.
`SignaturesAssumption`: no argument of a `defn` is void. `FormsAssumption`, `NamesAssumption`.

*Argument.* None of the properties is inductive: they speak of the moment a node is compiled,
and what makes them true was done when it was checked. The invariant (`ScopeInvariant`)
connects the two. The instructions of a unit are a *chain* (`CodeChained`): each begins with
the scopes and pending types its predecessor ends with, and for each holds what its plugin
has established (`InstrOK`). While the first walk goes on, its stacks are those at the end of the
chain, and the plugins *nest* (`PluginsNest`): each has opened exactly the scopes that are in
force inside it but not outside, and has no more results than its callees gave it. In the
second walk, scopes and results *mirror* those at link `pc` (`ScopesMirror`, `ResultsMirror`): same
names, types and sites, with a value exactly where the type is not void. Then a backward
scan that stops at a value finds what a backward scan that stops at a name found, unless
what the latter found is void or a function; `ReadsOnlyValues` excludes just these, and
`CheckedUnitsCompile` and `PassesAgree` are stated for units that satisfy it. That they need to be is
the first observation of 6.5.
`CallsPassTheirArguments` is what the mirror says of the top results at a call: one for each
argument of the overload, of its type, with a value unless it is void.

`StackLemmas` has the facts about sequences and about the largest element of a set that the
proofs cite. There is one lemma per action for the first walk and one per instruction for
the second.

`SearchIsLexical` needs two more things. What a name means after a scope is pushed or an
entry is added is computed from what it meant before (`MeaningInTop`, `MeaningBelow`, `OtherNamesKept`):
a backward scan meets the last entry of the new scope that has the name, and goes on below when
there is none. And `Declare` asks for a site that no name means at any depth, which `IInv` does
not give; `SitesKept` does: every site in force is below the next one, since the code a site is
numbered after only grows within a unit. The steps of the program are then put beside those of
`LexicalScope`: `BeginUnit` and `OpenForm` enter, `BindLocal` declares, `CloseScope` and `BeginCompile`
leave, every throw of the first walk abandons, and nothing else changes the scopes.

### 4.2 Sessions

`ModuleSession_proofs` proves, for every set of names and types, all builtins, every set of
forms, and all bounds, that satisfy the assumptions of `ModuleSession`:

| theorem | statement |
|---|---|
| `SessionInvariance` | `Spec => []IInv` |
| `SessionTypes` | `Spec => []TypeOK` |
| `SignaturesStayUnique` | `Spec => []SignaturesUnique` |
| `CodeAlwaysComplete` | `Spec => []CompiledCodeIsComplete` |
| `WholeProgramCompiled` | `Spec => []CompilesWholeProgram` |
| `ModuleGrows` | `Spec => ProgramOnlyGrows`: a session implements `ProgramGrowth` |

*Assumptions.* `BuiltinsAssumption`: the builtins are not functions with a body, and two of one
name are functions with different arguments, as the registration of the numeric operators
makes them. `FormsAssumption`: a statement is a call at least (a form whose head is a symbol is
one), and does not throw in the first pass, which has only functions. `TypesAssumption`, and
`BoundsAssumption`, that the bounds are numbers.

*Argument.* `SignaturesUnique` is inductive beside `TypeOK`: the only step that defines is
`CheckDefn`, and `Definable` is what `define_function` asks. `CompiledCodeIsComplete` speaks of the moment
`compile` returns, and is not: nothing in it says that the values a call refers to are those of
*this* compile and not of an earlier one. The invariant (`SessionInvariant`) does, with the
length `base` the `llvm::Module` had when the compile began. Its values from there on are
*fresh*. During the first pass, the symbols it has come to have each a fresh value of their
own (`OwnValues`), which is declared and not finished; those it has not come to may still have
a value of an earlier compile, so no code may be emitted. `FirstPassInit` adds the last one, and from
there on all symbols have theirs. In the second pass a symbol is finished exactly when it is
no longer pending (`ValueOf`), so it is finished once, and all calls emitted go to fresh values
(`CallsFresh`). When nothing is pending the values are all finished, which is the property.
`InitIsProgram` carries through the second pass that module_init was made of all statements; no
form can be added between the passes.

For the refinement, a step of `CheckDefn` or `CheckStatement` is the one step of `ProgramGrowth`; all
others change symbols only in their value and leave the program as it is, which needs that
calls are to symbols of the module and not to values (`CallsKnown`).

### 4.3 Access to members

`VariableAccess_proofs` proves, for every set of names and types, every function from pointer
types to what they point to, all locals, properties and chains, every width of an `int32_t` and
all bounds, that satisfy the assumptions of `ModuleSymbols`, `Datatypes` and `VariableAccess`:

| theorem | statement |
|---|---|
| `AccessInvariantHolds` | `Spec => []IInv` |
| `NodesAreOwnedOnce` | `Spec => []NodesOwnedOnce` |
| `TypesOfTheWalksAgree` | `Spec => []TypesAgree` |
| `IndicesGoToTheMembers` | `Spec => []SameMembers` |

*Assumptions.* `SymbolsAssumption`: the types of functions are types. `PropertiesAssumption`: a
property is a field or an accessor of some type, and a field has both a getter and a setter, as
`type_check_property` treats it. `AccessAssumption`: what is pointed to is a type, each function
type has a pointer type, locals are not void, and ordinals of properties fit an `int32_t`.
`NoTypeAssumption`: the null reference is no type.

*Argument.* `TypesAgree` and `SameMembers` compare the results of a walk with a walk that ended before,
when fewer things were defined. The invariant (`AccessInvariant`) describes the first one in terms that
definitions cannot take back: the `path` of an access is one its chain describes in the present
table (`ProgramNodes`, `NodeOK`), each member a property, by its ordinal, of the datatype that is
found for the type before it. It stays so, since every definition makes the table *grow* (`Grown`): a
name keeps its first node, a type its datatype, and a datatype its properties at their
ordinals. For this it matters that `_datatypes.insert` keeps what is there. The second walk is
then described as being at entry `at` of the path: with the type the path has there and one index
for each member before. Each of its turns finds the member next on the path (`StepKeeps`), as a
name or an ordinal has one property at most (`OneOrdinal`), and the element of a field is its index if
none of the fields before it is void (`ElementIsIndex`). An accessor ends the walk if it is named
and is passed over if it is numbered; from there on the path says nothing, which is the
exception `SkipsAccessor` in both properties (6.5). `NodesOwnedOnce` is inductive beside the types of
the table.

### 4.4 Memory

`CompilerMemory_proofs` proves, for every word size, size of memory, range of a byte and
alignment of malloc, all sizes of slabs and items, all sets of sizes the compiler and the
program ask for and all bounds, that satisfy the assumptions of the four modules:

| theorem | statement |
|---|---|
| `MemoryInvariance` | `Spec => []IInv` |
| `TypeCorrect` | `Spec => []TypeOK` |
| `HeadersStayIntact` | `Spec => []HeadersIntact` |
| `OpenSlabStaysLast` | `Spec => []OpenSlabIsLast` |
| `FreeListStaysSound` | `Spec => []FreeListIsSound` |
| `DestructorsAlwaysFindNodes` | `Spec => []DestructorsFindNodes` |
| `OnlyProgramsEverLeak` | `Spec => []OnlyProgramsLeak` |
| `MemoryKeepsContract` | `Spec => KeepsContract`: all allocators together implement `AllocatorContract` |

*Assumptions.* `MemoryAssumption`: a word has two bytes at least, a header keeps the alignment
of malloc, and the distance over a header and a word fits a byte. `SlabAssumption`: a slab is a
whole number of words, two at least. `PoolAssumption`: an item and
a word fit a slab of the pool, which is a whole number of words. `SizesAssumption`: nodes are whole words and
nobody asks for a buffer or a type of nothing; a program asks for alignments that `CanAlign`
admits. The last is what 6.5 says of `allocate`: without it `HeadersIntact` is false.

*Argument.* From the outside in. The chunks of malloc are apart, and each holds one block that its
offset byte leads back from (`TrackingSound`). This is inductive by itself, since each action
calls `allocate` once, or only `deallocate`, or neither (`OneCall`). Then each outstanding block has one owner, a slab list, the factory, the type library or
the program (`OwnersApart`), and members already destroyed own nothing (`DestroyedInOrder`): when the
allocator goes, only the program's blocks can be left, which is `OnlyProgramsLeak`. Each slab is in
turn cut into pieces that are apart, the nodes of the tree up to the cursor of the open slab
(`NodesSound`), the objects at multiples of the item's size (`ObjectsSound`), each either in use or on
the free list once. Pieces of different blocks are apart because the blocks are, pieces of one
block because the cut is, and no node, object or single block shares a byte with
another. Finally a step brings at most one more block into use (`OneMore`), and with the invariant
after the step that block is one `AllocatorContract` may hand out.

### 4.5 Code generation

`CodeGen_proofs` proves, for functions of any number of arguments and bodies of any size
and nesting:

| theorem | statement |
|---|---|
| `CodeGenInvariance` | `Spec => []IInv` |
| `CodeGenTypes` | `Spec => []TypeOK` |
| `BlocksAlwaysWellFormed` | `Spec => []BlocksWellFormed` |
| `PhisAlwaysNamePredecessors` | `Spec => []PhisNamePredecessors` |
| `UsesAlwaysDefined` | `Spec => []UsesAreDefined` |
| `AlwaysRunsAsWritten` | `Spec => []RunsAsWritten`: the graph does what the body says |

*Assumptions.* `BoundsAssumption`, that the numbers of arguments and the bounds are numbers. Three of
the properties, all but `PhisNamePredecessors`, speak of functions that are `anchored`; 6.3 is
about those that are not.

*Argument.* The properties speak of a function that is complete and of its runs; all that makes
them true was done while nodes were open. The invariant (`CodeGenInvariant`) says what an
unfinished graph is, in four parts.

`Layout`: a block that a frame has made and not come to is *pending*: empty, and awaited by that frame
only. The insert block is open, every other block is closed by its one terminator. The blocks
not yet in the function are the pending ones of ifs. When no frame is left, nothing is pending,
and `BlocksWellFormed` is what remains. `anchored` is needed for the entry block alone, where an
alloca may come last.

`Edges`: a phi is first in its block and names exactly the blocks that branch to it. For this the frame of an if
must know who branches to its merge block: nobody while its then part is open, and then the
block this part *ended* in, which is the one kept in the frame (`BlocksOK`), and a closed one, since
it is not the insert block any more. A block gets no branch it was not made for, since
branches go to blocks of the top frame only, and those of two frames are apart.

`Knowledge`: `Flow` says of every instruction that what it uses is known in its block or made before it
there, and of every branch that its target knows no more than is made where it stands. So what a
block claims to know is made on every path to it, although paths through a loop are not finite. The
frames must keep to it: where an if or a for ends, no more is known than where it branched, so the
results and locals below it must be known *there* (`LevelOK`) and not only where the builder is
now. The one value this does not hold of is that of a then part, which waits on the stack for
the phi (`ThenValue`). An alloca goes to the entry block, however deep the frame: its place becomes
known in all other blocks at once, which is sound because control leaves the entry block by its
last instruction only.

`Places`: each instruction stands where its token is, each follows its predecessor by one
token or by none, and each branch goes to a block that begins where the token goes (`LeadsOn`).
Targets that are pending begin nowhere yet: of them the invariant says which token will be set
when they are come to (`Awaited`), and that nobody else goes there.

`RunOK` is then an invariant of two machines: the instruction control is at has the place the other
machine is at, what its block claims to know has been executed, and at a phi so has all that is
made in the block control came from. A step to the next instruction follows from `Places` and
`Flow` for one block, a branch from the same two for an edge.

An action of code generation is taken apart in what it does to the graph (an instruction at the
end of a block, with or without new blocks; an alloca in the entry block; a phi) and to the
stacks (a frame or value pushed, popped or replaced). There are lemmas for each part of the
invariant and each of these, and one lemma per action that puts them together. The invariant
was evaluated by TLC in all states of `MCCodeGen` before it was proved; it is in no run
of its own, since the properties of that run follow from it.

### 4.6 The tables

`CompilerTables_proofs` proves, for every set of texts, names and numeric types, every width of an
integer and of a `long`, all numbers and floating point values and all bounds, that satisfy the
assumptions of the three modules:

| theorem | statement |
|---|---|
| `Invariance` | `Spec => []IInv` |
| `TypeCorrect` | `Spec => []TypeOK` |
| `SameContentSameReference` | `Spec => []EqualIfSame` |
| `ReferencesStayLive` | `Spec => []ReferencesLive` |
| `OperatorsAlwaysCompute` | `Spec => []OperatorsCompute` |
| `TypesAlwaysLowerOnce` | `Spec => []TypesLowerOnce` |

*Assumptions.* `SizesAssumption`: the bounds are numbers. `WidthsAssumption`: an integer type has a bit at
least and is no wider than what the text of a constant is parsed to. `ListsAssumption`: a numeric type is in one
list of types, once. `NumbersAssumption`: what is written is an integer, and a floating point value is
a number or none. `PowersAssumption` says nothing of the code: it is what a power of two is, which
the provers know only for an exponent that is a literal.

*Argument.* `IInv` (`TablesInvariant`) has three parts, of which each is preserved if those
before it hold.

`TablesInv`: each entry views memory that it owns, so never a vector that its caller frees on return,
and no two entries have the same content (`NamesApart`, `TypesApart`). An interning call first stores what it was
asked for in a place that is free, then looks it up, and either drops it or makes an entry
of it. In all cases the tables only *grow*: a text keeps its address, an entry its content, a
reference what it refers to. All that was ever handed out stays as it was then (`HandedOK`), which with one
owner for each content gives `EqualIfSame` and `ReferencesLive`. As contents are addresses, the argument for names rests on the one for
texts, and that for types on the types before them, which is why a type is made of older ones.

`OperatorsInv`: the functions are the overloads of the registrations that are done, and each of those has one
(`OperatorsOnce`). No two registrations have an operator and a type in common, so `define_function` never
finds a signature taken and the constructor never throws. A call finds the overload of its
type and, since references are equal only for equal types, no other. That the instruction computes
what the operator means is arithmetic: a constant is its residue mod 2^w, as a signed type
reads it or as an unsigned one does, and the four operations and six comparisons follow case by case.

`LoweringOK`: the calls under way go from a type to an older one, so their recursion ends and never meets the null of a
type that is still open, although the code would take it on. The nulls of the cache are exactly
the open types (`NullsOpen`); an open one has so far what its parts were lowered to (`OpenPartly`); all others
are whole, and no two have the same struct (`CachedWhole`). A throw leaves nulls behind, and ends the
compile, whose cache is never asked again.

The invariant was evaluated by TLC in all states of `MCTables` before it was proved. It is in no
run of its own: this takes longer than a run should, and the properties of `MCTables` follow from it.

### 4.7 What is only model-checked

The properties of the reader and of macros, as what their recursive definitions compute for
every input (`ReaderGrammar`, `MacroExpansion`) is out of the prover's reach, and so is liveness, of
which there is one property (`StopsWhenNotStray`).


## 5. Not modelled, and what is next

Next: the names of LLVM values and the buffer they are made in.

Not planned: the parsing of floating point numbers (the C library), the garbage collector (no
code), `lisp_eval` in the preprocessor (unreachable), static properties and operators of
datatypes (stored and read by nobody), `variant` and `invasive_list` beyond their meaning (the
operations that are not obvious have no callers), the vendored `pcre` and `gtest`, which are most
of the lines of the repository and none of its logic.


## 6. What the checks found

Each of the first four is the counterexample of a run.

1. **A call that no overload matches is accepted** (`MCScopeOverload`). `base_plugins.cpp:94-110`
   assigns `result_function` before it compares the arguments, so the throw after the loop is
   unreachable and the call is checked against the last overload.
2. **A stray closing bracket hangs the reader** (`MCReaderStray`). `read` advances only over what it
   takes, and neither `)` nor `]` nor `|` outside a form is taken (`compiler.cpp:316`).
3. **An alloca after the terminator** (`MCCodeGenLet`). The builder into the entry block is made
   while the block is empty; a branch emitted by the binding's expression then comes first.
   The verifier is called and its answer ignored (`module.cpp:260`).
4. **A second use of a macro has the arguments of the first** (`MCMacroSecondUse`). Templates are
   filled in place (`preprocessor_plugins.cpp:54`).
5. Seen in the models or while writing them, and excluded by a named condition of a property
   or documented only:
   * an `if` whose branches have type void, one of them a name, type checks and throws in the
     second pass (`language_plugins.cpp:82`); hence `ReadsOnlyValues`;
   * `set` of a module variable is accepted and stores nothing (`module.cpp:1157`);
   * `set` asks whether its target can be read, and never whether it can be written
     (`language_plugins.cpp:363`), and drops all expressions but the last (`357`);
   * a chain with an accessor type checks, and its second walk resolves to nothing if it is named
     (`module.cpp:1078`), or passes over it if it is numbered (`1095`), although `module.h:466` says that
     "member fields/accessors may be accessed by ordinal as well as name.": the walk then goes on with the type
     before the accessor, to a null datatype (`1094`) or a throw of `deref_ptr_type` (`1109`); hence
     `SkipsAccessor`;
   * `index_of_field` counts void fields, for which the struct has no element (`module.cpp:438` and
     `524`): the fields behind one are loaded from the element after their own; hence the condition in `GoesTo`;
   * an ordinal is cut to 32 bits by the second walk, not by the first (`module.cpp:1085`);
   * the indices into a module variable lack the leading 0 of those into a local
     (`module.cpp:1056`), though both are pointers to their value, and a getelementptr that goes
     through a pointer inside a chain would have to load it first (`1088`);
   * the second datatype defined with a type is owned by its name and found by no lookup
     (`module.cpp:737`);
   * an alignment of 0, 3 or above 240 breaks `allocate` (`allocator.cpp:37-48`); hence `CanAlign`;
   * a program that keeps what it got from `rt_malloc` makes a destructor throw
     (`allocator.cpp:28`);
   * a type that cannot be lowered, once defined, ends every later `compile`
     (`module.cpp:1182`);
   * a use of a macro with too few arguments dereferences null;
   * the comparisons of floating point values are the unordered ones: `<`, `>`, `<=`, `>=` and `==`
     are all true if an operand is not a number (`base_plugins.cpp:533-567`); hence the
     restriction of `OperatorsCompute` to numbers;
   * an integer constant is cut to its type without a word, and one of type `u64` above the
     largest `long long` throws (`base_plugins.cpp:198-206`); hence `Represents` and `Parses`;
   * `number_string.find('.')` is used as a boolean (`base_plugins.cpp:281`): a constant without a type
     would be an `f64` unless its text begins with a point, but the reader gives all a type;
   * `clear` does not empty a `stringstream`: names of LLVM values, and the names `define_function` makes
     up for arguments, have all earlier ones in front (`compiler_plugin.cpp:86`, `module.cpp:1261`).

6. **`execute` runs all statements ever type checked**, those of earlier texts before those of
   its own, and also those of a text that threw part way: `_init_statements` is never emptied
   (`module.cpp:1171`). `CompilesWholeProgram` states it, as the sources do not say which of the two is meant.
