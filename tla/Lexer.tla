-------------------------------- MODULE Lexer --------------------------------
(***************************************************************************)
(* The lexer of the UwU-C compiler (lexer.c).  A source is a sequence of   *)
(* pieces: a mark, a digit, a blank, or the letters between two of these,  *)
(* so that pieces side by side can run together into one name, number or   *)
(* operator as the characters of a file do.                                *)
(* A definition in front of another one whose name starts alike is a       *)
(* mutation of it that the runs must refute.                               *)
(***************************************************************************)
EXTENDS Naturals, Sequences, SequencesExt

BLANKS == {" ", "\n"}
DIGITS == {"0", "1", "2", "3", "4", "5", "6", "7", "8", "9"}
QUOTE == "\""
ESCAPE == "\\"
SINGLE == {"+", "-", "*", "/", "%", "&", "|", "^", "~", "!", "=", "<", ">", "(", ")",
           "{", "}", "[", "]", ",", ":", ";", "."}
DOUBLES == {"+=", "-=", "->", "*=", "/=", "&&", "||", "!=", "==", "<=", "<<", ">=", ">>"}
COMMENT == "//"
MARKS == SINGLE \cup BLANKS \cup {QUOTE, ESCAPE, "@"}
KEYWORDS == {"nuzzle", "gimme", "pwease", "nowu", "wepeat", "fow", "bweak", "continyue",
             "stwuct", "enum", "smoosh", "const", "static", "extern", "typedef", "sizeof",
             "nuww", "unsafe", "smol", "chonk", "megachonk", "floof", "bigfloof", "boop",
             "void", "byte", "true", "false"}

IsWord(piece) == piece \notin MARKS \cup DIGITS
Digit(d) == CHOOSE n \in 0..9 : ToString(n) = d

Peek(src, at) == IF at <= Len(src) THEN src[at] ELSE ""
\* The two characters there, when they make one of pairs.
Pair(src, at) == Peek(src, at) \o Peek(src, at + 1)
\* Where the pieces of a kind that start at a place end.
RECURSIVE RunEnd(_, _, _)
RunEnd(src, at, kind) ==
    IF Peek(src, at) \in kind THEN RunEnd(src, at + 1, kind) ELSE at
Lexeme(src, from, end) == FoldLeft(LAMBDA s, piece : s \o piece, "", SubSeq(src, from, end - 1))

RECURSIVE skip_whitespace(_, _)
skip_whitespace(src, at) ==
    CASE Peek(src, at) \in BLANKS -> skip_whitespace(src, at + 1)
      [] Pair(src, at) = COMMENT ->
             skip_whitespace(src, RunEnd(src, at, Range(src) \ {"\n"}))
      [] OTHER -> at

Token(kind, lexeme, value, end) ==
    [kind |-> kind, lexeme |-> lexeme, value |-> value, end |-> end]
Fixed(kind, end) == Token(kind, kind, 0, end)

\* A fraction's bits are taken for an integer by parse_primary.
FRACTION == 8888
Number(digits) == FoldLeft(LAMBDA n, d : 10 * n + Digit(d), 0, digits)
read_number(src, at) ==
    LET whole == RunEnd(src, at, DIGITS)
        end == IF Peek(src, whole) = "." /\ Peek(src, whole + 1) \in DIGITS
               THEN RunEnd(src, whole + 1, DIGITS) ELSE whole
    IN Token("NUMBER", Lexeme(src, at, end),
             IF end = whole THEN Number(SubSeq(src, at, end - 1)) ELSE FRACTION, end)

Identifier(name, end) ==
    IF name \in KEYWORDS THEN Fixed(name, end) ELSE Token("IDENT", name, 0, end)
read_identifier(src, at) ==
    LET end == RunEnd(src, at, (Range(src) \ MARKS) \cup DIGITS)
    IN Identifier(Lexeme(src, at, end), end)

\* To the next quote that no backslash precedes.  Of the text only the
\* number of its conversions is kept, from FORMAT on.
FORMAT == 600
RECURSIVE StringEnd(_, _)
StringEnd(src, at) ==
    CASE at > Len(src) \/ src[at] = QUOTE -> at
      [] src[at] = ESCAPE -> StringEnd(src, IF at < Len(src) THEN at + 2 ELSE at + 1)
      [] OTHER -> StringEnd(src, at + 1)
Conversions(text) == Len(SelectSeq(text, LAMBDA piece : piece = "%"))
read_string(src, at) ==
    LET end == StringEnd(src, at + 1)
    IN IF end > Len(src) THEN Token("ERROR", "", 0, end)
       ELSE Token("STRING", "", FORMAT + Conversions(SubSeq(src, at + 1, end - 1)), end + 1)

\* The longest operator there is.
OperatorShort(src, at) == Fixed(src[at], at + 1)
Operator(src, at) ==
    CASE Pair(src, at) \in DOUBLES -> Fixed(Pair(src, at), at + 2)
      [] src[at] \in SINGLE -> Fixed(src[at], at + 1)
      [] OTHER -> Token("ERROR", "", 0, at + 1)

lexer_next_token(src, at) ==
    CASE at > Len(src)        -> Fixed("EOF", at)
      [] src[at] \in DIGITS   -> read_number(src, at)
      [] IsWord(src[at])      -> read_identifier(src, at)
      [] src[at] = QUOTE      -> read_string(src, at)
      [] OTHER                -> Operator(src, at)

\* All tokens of a file, as the parser's calls of lexer_next_token get them.
RECURSIVE TokensFrom(_, _)
TokensBehind(src, token) ==
    <<[kind |-> token.kind, lexeme |-> token.lexeme, value |-> token.value]>>
    \o IF token.kind = "EOF" THEN <<>> ELSE TokensFrom(src, token.end)
TokensFrom(src, at) == TokensBehind(src, lexer_next_token(src, skip_whitespace(src, at)))
Tokens(src) == TokensFrom(src, 1)
=============================================================================
