----------------------------- MODULE ReaderGrammar -----------------------------
(***************************************************************************)
(* What the reader is for, stated on whole texts with no cursor: which     *)
(* texts have a meaning and what it is.  The data it returns must hold the *)
(* tokens of the text, all of them, in order and grouped as the brackets   *)
(* group them.                                                             *)
(***************************************************************************)
EXTENDS Reader

Closing(c) == IF c = "(" THEN ")" ELSE "]"

\* The first position from p on that begins no token: the end of the one at p.
TokenEnd(t, p) == Min({q \in p .. Len(t) + 1 : q = Len(t) + 1 \/ t[q] \in Delimiters})

\* The newline a comment at p ends with, or the end of the text.
LineEnd(t, p) == Min({q \in p .. Len(t) + 1 : q = Len(t) + 1 \/ t[q] = Newline})

RECURSIVE Tokens(_, _, _)
\* The tokens of t from p on, at a depth of so many brackets.  Those outside any
\* bracket are no part of a form.
Tokens(t, p, depth) ==
  IF p > Len(t) THEN << >>
  ELSE CASE t[p] \in White      -> Tokens(t, p + 1, depth)
         [] t[p] = ";"          -> Tokens(t, LineEnd(t, p), depth)
         [] t[p] \in {"(", "["} -> <<<<t[p]>>>> \o Tokens(t, p + 1, depth + 1)
         [] t[p] \in {")", "]"} -> <<<<t[p]>>>> \o Tokens(t, p + 1, depth - 1)
         [] t[p] = "|"          -> <<<<"|">>>> \o Tokens(t, p + 1, depth)
         [] OTHER -> LET q == TokenEnd(t, p) IN
                     (IF depth > 0 THEN <<SubSeq(t, p, q - 1)>> ELSE << >>) \o Tokens(t, q, depth)

RECURSIVE Nesting(_, _, _)
\* Do the brackets of t from p on close the ones in open?  A bracket that closes
\* another one, or none, is stray, and so is a | outside all brackets.
Nesting(t, p, open) ==
  IF p > Len(t) THEN IF open = << >> THEN "closed" ELSE "open"
  ELSE CASE t[p] = ";"          -> Nesting(t, LineEnd(t, p), open)
         [] t[p] \in {"(", "["} -> Nesting(t, p + 1, Append(open, t[p]))
         [] t[p] \in {")", "]"} ->
              IF open # << >> /\ Closing(Last(open)) = t[p]
              THEN Nesting(t, p + 1, Front(open)) ELSE "stray"
         [] t[p] = "|" /\ open = << >> -> "stray"
         [] OTHER -> Nesting(t, p + 1, open)

RECURSIVE Written(_)
\* The tokens lisp data is written with.
Written(nodes) ==
  IF nodes = << >> THEN << >>
  ELSE LET n == Head(nodes)
           name == IF n.token = << >> THEN << >> ELSE <<n.token>>
           suffix == IF n.type = << >> \/ (n.kind = "constant" /\ n.type = DefaultType(n.token))
                     THEN << >> ELSE <<<<"|">>>> \o Written(n.type)
           own == CASE n.kind = "list"  -> <<<<"(">>>> \o Written(n.items) \o <<<<")">>>>
                    [] n.kind = "array" -> <<<<"[">>>> \o Written(n.items) \o <<<<"]">>>>
                    [] OTHER            -> name \o suffix
       IN  own \o Written(Tail(nodes))

-----------------------------------------------------------------------------

RECURSIVE WellFormed(_)
WellFormed(nodes) ==
  \A i \in DOMAIN nodes :
    /\ DOMAIN nodes[i] = {"kind", "token", "type", "items"}
    /\ nodes[i].kind \in {"list", "array", "symbol", "constant"}
    /\ nodes[i].kind = "constant" => nodes[i].type # << >>
    /\ WellFormed(nodes[i].type) /\ WellFormed(nodes[i].items)

\* The cursor is in the text or at its end, and every node is lisp data.
TypeOK ==
  /\ text \in Seq(Alphabet) /\ cur \in 1 .. End
  /\ status \in {"reading", "done", "failed"}
  /\ WellFormed(forms)
  /\ \A i \in DOMAIN stack :
       stack[i].kind \in {"list", "array", "type"} /\ WellFormed(stack[i].items)

\* compiler_impl::read gives its caller every token inside a form, once, in order
\* and in the bracket it stood in, whatever white space, comments and types are
\* between: no parse function eats a token of another.
ReadsEveryToken == status = "done" => Written(forms) = Tokens(text, 1, 0)

\* A text is read only if each bracket is closed by its own kind: no form is cut
\* short at the end of the text, or closed by its caller's bracket.
AcceptsOnlyClosedText == status = "done" => Nesting(text, 1, << >>) = "closed"

\* read() throws for one of three reasons: the text ends in a form, a list begins
\* with a list, or a type is a number.
RejectsForAReason ==
  status = "failed" =>
    \/ Nesting(text, 1, << >>) = "open"
    \/ LET tokens == Tokens(text, 1, 0) IN
       \E i \in 1 .. Len(tokens) - 1 :
         \/ tokens[i] = <<"(">> /\ tokens[i + 1] = <<"(">>
         \/ tokens[i] = <<"|">> /\ IsNumber(tokens[i + 1])

\* A text with no stray bracket is read or rejected in the end.
StopsWhenNotStray == Nesting(text, 1, << >>) # "stray" => <>(status # "reading")

\* compiler.h:29, on read: "transform text into the lisp datastructures".  It
\* returns, or throws, whatever the text.
ReadStops == <>(status # "reading")
=============================================================================
