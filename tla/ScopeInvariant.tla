---------------------------- MODULE ScopeInvariant ----------------------------
(***************************************************************************)
(* Why the second walk of ScopeResolution finds what the first one found:  *)
(* the invariant its theorems rest on.  Read as a whole: the instructions  *)
(* of a unit form a chain, each beginning with the scopes and the pending  *)
(* types the one before it ends with; the first walk is at the end of the  *)
(* chain, the second at instruction pc, and at every link the scopes and   *)
(* results of the second walk mirror what the first one had there.         *)
(***************************************************************************)
EXTENDS ScopeResolution

\* The scopes a unit begins with.
UnitEnv == IF unit.defn THEN <<ArgumentScope(unit.args)>> ELSE << >>

\* The scopes, and the pending types, after instruction c.
EnvAfter(c) ==
  CASE c.op = "enter" -> Append(c.env, << >>)
    [] c.op = "bind"  -> [c.env EXCEPT ![Len(c.env)] =
                            Append(@, [name |-> c.name, type |-> c.type, at |-> c.at])]
    [] c.op \in {"endlet", "endfor"} -> Front(c.env)
    [] OTHER -> c.env

StkAfter(c) ==
  CASE c.op = "enter" -> c.stk
    [] c.op \in {"bind", "branch"} -> Front(c.stk)
    [] OTHER -> Append(DropLast(c.stk, c.n), c.type)

\* The same, before instruction k (the k of the whole unit is Len(code) + 1).
EnvAt(k) == IF k = 1 THEN UnitEnv ELSE EnvAfter(code[k - 1])
StkAt(k) == IF k = 1 THEN << >> ELSE StkAfter(code[k - 1])

\* What type checking has established for instruction c.
InstrOK(c) ==
  /\ c.op \in {"const", "ref"} => c.n = 0
  /\ c.op = "const" => c.type # Void
  /\ c.op = "ref" => /\ [type |-> c.type, at |-> c.at] = TypeCheckAccess(c.env, c.name)
                     /\ c.at # Unresolved
  /\ c.op \in {"bind", "endlet", "endfor"} => c.env # << >>
  /\ c.op \in {"bind", "branch", "endlet", "endfor", "if", "set"} => c.stk # << >>
  /\ c.op \in {"endlet", "endfor"} => c.n >= 1
  /\ c.op \in {"bind", "endlet", "set"} => c.type = Last(c.stk)
  /\ c.op = "endfor" => c.type = Void
  /\ c.op = "bind" => c.at >= 1
  /\ c.op = "branch" => Last(c.stk) = Bool
  /\ c.op = "set" => /\ c.n = 1
                     /\ [type |-> c.type, at |-> c.at] = TypeCheckAccess(c.env, c.name)
                     /\ c.at # Unresolved
  /\ c.op = "if" => /\ c.n = 3 /\ Len(c.stk) >= 3 /\ c.type = Last(c.stk)
                    /\ c.stk[Len(c.stk) - 2] = Bool
                    /\ c.stk[Len(c.stk) - 1] = Last(c.stk)
  /\ c.n <= Len(c.stk)

\* The instructions are a chain.
CodeChained ==
  \A k \in DOMAIN code :
    /\ code[k].env = EnvAt(k) /\ code[k].stk = StkAt(k)
    /\ InstrOK(code[k])

\* What each phase leaves empty.
PhaseShape ==
  /\ ~unit.defn => unit.args = << >>
  /\ phase = "idle" => /\ frames = << >> /\ nodes = << >> /\ code = << >>
                       /\ tscopes = << >> /\ cscopes = << >> /\ results = << >>
  /\ phase = "check" => cscopes = << >> /\ results = << >>
  /\ phase \in {"compile", "broken"} =>
       /\ frames = << >> /\ nodes = << >> /\ tscopes = << >>
       /\ pc \in 1 .. Len(code) + 1
       /\ EnvAt(Len(code) + 1) = UnitEnv

\* The scopes in force inside the plugin of frame k: those the plugin above it
\* was called with.
Inside(k) == IF k = Len(frames) THEN tscopes ELSE frames[k + 1].env

\* Plugin k has been handed nodes its caller cannot take from it, has opened the
\* scopes it should have and no other, and has found what it looked up.
FrameOK(k) ==
  LET f == frames[k] IN
  /\ f.form = "unit" <=> k = 1
  /\ f.stage \in {"bind", "cond"} => f.form \in {"let", "for"}
  /\ f.base <= Len(nodes)
  /\ \A j \in 1 .. k : frames[j].base <= f.base
  /\ IF Scoped(f) THEN Inside(k) # << >> /\ Front(Inside(k)) = f.env
                  ELSE Inside(k) = f.env
  /\ f.form = "set" =>
       /\ [type |-> f.type, at |-> f.at] = TypeCheckAccess(f.env, f.name)
       /\ f.at # Unresolved
  /\ f.form = "call" => f.name \in DOMAIN Symbols /\ Symbols[f.name].kind = "function"

ScopedFrames == {k \in DOMAIN frames : Scoped(frames[k])}

PluginsNest ==
  /\ frames # << >> /\ frames[1].env = << >>
  /\ Inside(1) = UnitEnv
  /\ Len(tscopes) = Cardinality(ScopedFrames)
  /\ \A k \in DOMAIN frames : FrameOK(k)

\* The first walk is at the end of the chain, and its plugins nest.
FirstPassAtEnd ==
  phase = "check" =>
    /\ tscopes = EnvAt(Len(code) + 1) /\ nodes = StkAt(Len(code) + 1)
    /\ PluginsNest

\* Every declaration has a site: no local of the first walk is without a value.
SitesPositive(scopes) == \A i \in DOMAIN scopes : \A j \in DOMAIN scopes[i] : scopes[i][j].at >= 1

\* A local of the first walk, as the second walk enters it.
Compiled(e) == IF e.type = Void THEN [name |-> e.name, type |-> Void, at |-> NoValue] ELSE e

\* cscopes mirrors the scopes env of the first walk.
ScopesMirror(env) ==
  /\ Len(cscopes) = Len(env) + Offset
  /\ ~unit.defn => cscopes[1] = << >>
  /\ \A i \in DOMAIN env :
       /\ Len(cscopes[i + Offset]) = Len(env[i])
       /\ \A j \in DOMAIN env[i] :
            /\ cscopes[i + Offset][j].name = env[i][j].name
            /\ ReadsOnlyValues => cscopes[i + Offset][j] = Compiled(env[i][j])

\* results mirrors the pending types stk.
ResultsMirror(stk) ==
  /\ Len(results) = Len(stk)
  /\ ReadsOnlyValues => \A k \in DOMAIN stk : results[k] = Result(stk[k], stk[k] # Void)

SecondPassMirrors ==
  phase \in {"compile", "broken"} =>
    /\ ScopesMirror(EnvAt(pc)) /\ ResultsMirror(StkAt(pc))
    /\ Len(cscopes) = OpenScopes
    /\ phase = "broken" => ~ReadsOnlyValues

\* At no point of the unit is a local of the first walk without a site.
SitesKnown == \A k \in 1 .. Len(code) + 1 : SitesPositive(EnvAt(k))

\* The inductive invariant: the first walk leaves a chain the second one can
\* follow, and both keep their stacks in step with it.
IInv ==
  /\ TypeOK
  /\ PhaseShape
  /\ CodeChained
  /\ SitesKnown
  /\ FirstPassAtEnd
  /\ SecondPassMirrors
=============================================================================
