-------------------------------- MODULE Reader --------------------------------
(***************************************************************************)
(* The reader of compiler.cpp: text in, lisp data out.                     *)
(*                                                                         *)
(* A recursive descent over one text with one cursor.  `stack' is the C++  *)
(* stack of parse functions that wait for an item: parse_list and          *)
(* parse_array collect them, parse_type (called by the token it belongs    *)
(* to) wants one or two.  A step goes from one decision of a parse         *)
(* function to the next: it ends when an item is returned to a caller or a *)
(* parse function is entered.                                              *)
(*                                                                         *)
(* Characters are strings of length one, but for Newline.  Positions count *)
(* from 1 (from 0 in the code), so that the end is End.                    *)
(***************************************************************************)
EXTENDS Integers, SequencesExt

CONSTANTS
  Alphabet,   \* the characters of a text
  MaxLength,  \* bound: the length of a text
  Digits,     \* the characters a number may begin with, or have after a sign
  Signs,      \* + and -
  Point       \* the character that makes a number an f64

Newline    == "newline"
White      == {" ", Newline}
Brackets   == {"(", ")", "[", "]"}
Delimiters == White \union Brackets \union {"|", ";"}

VARIABLES
  text,     \* reader::_str
  cur,      \* reader::_cur_ptr
  stack,    \* the parse functions waiting for an item
  forms,    \* what read() has collected
  status    \* reading, done (read returned) or failed (it threw)

vars == <<text, cur, stack, forms, status>>

End == Len(text) + 1      \* reader::_end_ptr

-----------------------------------------------------------------------------
(* The scanner.                                                             *)

\* q is in a comment that begins at p or later.
InComment(p, q) == \E s \in p .. q : text[s] = ";" /\ \A r \in s .. q : text[r] # Newline

\* eatwhite: the first position from p on that holds something to read.
EatWhite(p) ==
  Min({q \in p .. End : q = End \/ (text[q] \notin White /\ ~InComment(p, q))})

\* Mutant of FindDelimiter: a comment does not end a token.
FindDelimiterInComment(p) ==
  Min({q \in p .. End : q = End \/ text[q] \in Delimiters \ {";"}})

\* find_delimiter.
FindDelimiter(p) == Min({q \in p .. End : q = End \/ text[q] \in Delimiters})

\* _number_regex: the token begins like a number, whatever follows.
IsNumber(token) ==
  \/ Len(token) >= 1 /\ token[1] \in Digits
  \/ Len(token) >= 2 /\ token[1] \in Signs /\ token[2] \in Digits

\* Lisp data: a cons cell list, an array, a symbol or a constant.  A token's
\* `type' is what follows its |, and a constant has one in any case.
Node(kind, token, type, items) ==
  [kind |-> kind, token |-> token, type |-> type, items |-> items]
Symbol(token, type)   == Node("symbol", token, type, << >>)
Constant(token, type) == Node("constant", token, type, << >>)

\* The type of a constant that has no suffix.
DefaultType(token) ==
  <<Symbol(<<IF \E i \in DOMAIN token : token[i] = Point THEN "f64" ELSE "i64">>, << >>)>>

-----------------------------------------------------------------------------
(* The parse functions.                                                     *)

Top == Last(stack)
Parser(kind, token) == [kind |-> kind, token |-> token, items |-> << >>]

Fail ==
  /\ status' = "failed"
  /\ UNCHANGED <<text, cur, stack, forms>>

\* A parse function is entered, and goes on at p.
Enter(kind, token, p) ==
  /\ stack' = Append(stack, Parser(kind, token))
  /\ cur' = p
  /\ UNCHANGED <<text, forms, status>>

\* An item that ends before p is returned to the last of callers, or to read().
\* Lists and arrays skip the white space that follows it.
ReturnItem(callers, node, p) ==
  /\ IF callers = << >>
     THEN /\ stack' = callers /\ forms' = Append(forms, node)
          /\ cur' = p
     ELSE /\ stack' = [callers EXCEPT ![Len(callers)].items = Append(@, node)]
          /\ forms' = forms
          /\ cur' = IF Last(callers).kind = "type" THEN p ELSE EatWhite(p)
  /\ UNCHANGED <<text, status>>

\* parse_list, from its first bracket at p to its first item.
ParseList(p) ==
  LET q == EatWhite(p + 1) IN
  CASE q = End       -> Fail
    [] text[q] = ")" -> ReturnItem(stack, Node("list", << >>, << >>, << >>), q + 1)
    [] text[q] = "(" -> Fail
    [] OTHER         -> Enter("list", << >>, q)

\* parse_array, likewise.
ParseArray(p) ==
  CASE p + 1 = End       -> Fail
    [] text[p + 1] = "]" -> ReturnItem(stack, Node("array", << >>, << >>, << >>), p + 2)
    [] OTHER             -> Enter("array", << >>, EatWhite(p + 1))

\* Mutant of ParseToken: the end of the text is taken for a suffix.
ParseTokenPastEnd(p) ==
  LET q     == FindDelimiter(p)
      token == SubSeq(text, p, q - 1)
  IN  IF q = End \/ text[q] = "|" THEN Enter("type", token, q + 1)
      ELSE IF IsNumber(token) THEN ReturnItem(stack, Constant(token, DefaultType(token)), q)
      ELSE ReturnItem(stack, Symbol(token, << >>), q)

\* parse_number_or_symbol.  A token may be empty.  Only a symbol may end the text.
ParseToken(p) ==
  LET q     == FindDelimiter(p)
      token == SubSeq(text, p, q - 1)
  IN  CASE q = End /\ IsNumber(token)  -> Fail
        [] q < End /\ text[q] = "|"    -> Enter("type", token, q + 1)
        [] q < End /\ text[q] # "|" /\ IsNumber(token) ->
             ReturnItem(stack, Constant(token, DefaultType(token)), q)
        [] OTHER -> ReturnItem(stack, Symbol(token, << >>), q)

\* parse_next_item.
NextItem ==
  LET p == EatWhite(cur) IN
  CASE p = End       -> Fail
    [] text[p] = "(" -> ParseList(p)
    [] text[p] = "[" -> ParseArray(p)
    [] OTHER         -> ParseToken(p)

\* Mutant of ReadForm: the cursor is not moved past what read() does not take.
ReadFormInPlace ==
  /\ status = "reading" /\ stack = << >> /\ cur < End
  /\ CASE text[cur] = "(" -> ParseList(cur)
       [] text[cur] = "[" -> ParseArray(cur)
       [] OTHER           -> cur' = EatWhite(cur) /\ UNCHANGED <<text, stack, forms, status>>

\* One turn of the loop of read(): it takes lists and arrays, and passes over
\* tokens.  On any other delimiter it stays where it is.
ReadForm ==
  /\ status = "reading" /\ stack = << >> /\ cur < End
  /\ LET p == FindDelimiter(EatWhite(cur)) IN
     CASE p < End /\ text[p] = "(" -> ParseList(p)
       [] p < End /\ text[p] = "[" -> ParseArray(p)
       [] OTHER -> cur' = p /\ UNCHANGED <<text, stack, forms, status>>

ReadReturns ==
  /\ status = "reading" /\ stack = << >> /\ cur = End
  /\ status' = "done"
  /\ UNCHANGED <<text, cur, stack, forms>>

\* Bound: a list of more items than the text has characters is not followed, the
\* parser has long been going round in one place.
Room == Len(Top.items) <= Len(text)

\* Mutant of ParseItems: the end of the text closes the form.
ParseItemsToEnd(kind, closing) ==
  /\ status = "reading" /\ stack # << >> /\ Top.kind = kind /\ Room
  /\ IF cur = End \/ text[cur] = closing
     THEN ReturnItem(Front(stack), Node(kind, << >>, << >>, Top.items), Min({cur + 1, End}))
     ELSE NextItem

\* The loops of parse_list and parse_array.
ParseItems(kind, closing) ==
  /\ status = "reading" /\ stack # << >> /\ Top.kind = kind /\ Room
  /\ CASE cur = End -> Fail
       [] cur < End /\ text[cur] = closing ->
            ReturnItem(Front(stack), Node(kind, << >>, << >>, Top.items), cur + 1)
       [] OTHER -> NextItem

ParseListItems  == ParseItems("list", ")")
ParseArrayItems == ParseItems("array", "]")

\* The token has its type: parse_type returns to parse_number_or_symbol, and that
\* to its caller.
TypeComplete ==
  ReturnItem(Front(stack),
             IF IsNumber(Top.token) THEN Constant(Top.token, Top.items)
             ELSE Symbol(Top.token, Top.items),
             cur)

\* Mutant of ParseType: an array alone is not a type.
ParseTypeNoArray ==
  /\ status = "reading" /\ stack # << >> /\ Top.kind = "type"
  /\ LET n == Len(Top.items)
         first == Top.items[1].kind
     IN  CASE n = 0 -> NextItem
           [] n = 1 /\ first = "symbol" /\ cur = End -> Fail
           [] n = 1 /\ first = "symbol" /\ cur < End /\ text[cur] = "[" -> NextItem
           [] n = 1 /\ first \in {"constant", "array"} -> Fail
           [] OTHER -> TypeComplete

\* parse_type: a name, with the array that follows it if any; an array; or a list.
ParseType ==
  /\ status = "reading" /\ stack # << >> /\ Top.kind = "type"
  /\ LET n == Len(Top.items)
         first == Top.items[1].kind
     IN  CASE n = 0 -> NextItem
           [] n = 1 /\ first = "symbol" /\ cur = End -> Fail
           [] n = 1 /\ first = "symbol" /\ cur < End /\ text[cur] = "[" -> NextItem
           [] n = 1 /\ first = "constant" -> Fail
           [] OTHER -> TypeComplete

Init ==
  /\ \E n \in 0 .. MaxLength : text \in [1 .. n -> Alphabet]
  /\ cur = 1 /\ stack = << >> /\ forms = << >>
  /\ status = "reading"

Next == ReadForm \/ ReadReturns \/ ParseListItems \/ ParseArrayItems \/ ParseType

\* The reader runs in the caller's thread: it goes on while it can.
Spec == Init /\ [][Next]_vars /\ WF_vars(Next)
=============================================================================
