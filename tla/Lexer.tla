------------------------------- MODULE Lexer -------------------------------
(***************************************************************************)
(* The lexer (lexer.c): from a text to its tokens.                         *)
(*                                                                         *)
(* The type of a token is "ident", "keyword", "int", "float", "string", or *)
(* the symbol itself.  Rows and columns count from 0.  No TLA+ string      *)
(* holds a backtick: ' stands for it.  The place where a token starts is   *)
(* bound by \E over a set of one place: there is nothing to choose.        *)
(***************************************************************************)
EXTENDS Integers, Sequences, FiniteSets, SequencesExt

VARIABLES
    text,           \* the text
    position,       \* how much of it was read
    row, col,       \* where that is
    tokens,         \* the tokens so far
    scanning        \* "on", "done", "error", or "comment": for ever in one

lexer == <<position, row, col, tokens, scanning>>

Chars(s) == {SubSeq(s, i, i) : i \in 1 .. Len(s)}
Blanks == Chars(" \t\r\n")
Digits == Chars("0123456789")
Letters == Chars("abcdefghijklmnopqrstuvwxyzABCDEFGHIJKLMNOPQRSTUVWXYZ_")

Keywords == {"if", "while", "for", "func", "use", "class", "raise", "continue",
    "break", "return", "else", "try", "except", "extends", "in", "true",
    "false", "macro", "match", "case", "default", "when", "from", "mixin",
    "enum", "let", "with"}

\* The symbols in the order in which next_token looks for them.
Symbols == <<"==", "!=", ">=", "<=", "||", "&&", "=>", "->", "::", "...", "..", "<<", ">>",
    "+=", "-=", "/=", "*=", "%=", "^=", "&=", "|=", "<<=", ">>=",
    "'", "(", ")", "{", "}", "[", "]", ";", ":", ".", ",", "=", "+", "-", "*", "/", "%",
    ">", "<", "|", "&", "~", "!", "@">>

\* A string is as long as it is, and no symbol is the name of what is not a
\* symbol: provers know too little of strings to work this out.
ASSUME SymbolsAssumption ==
    \A i \in DOMAIN Symbols : Len(Symbols[i]) \in Nat /\ Symbols[i] \notin {"eof", "keyword"}

InitLexer(s) ==
    /\ text = s
    /\ position = 0 /\ row = 0 /\ col = 0
    /\ tokens = <<>> /\ scanning = "on"

-----------------------------------------------------------------------------
\* peek_char, at a place in the text, "" at its end.
CharAt(at) == IF at < Len(text) THEN SubSeq(text, at + 1, at + 1) ELSE ""

\* The first place from here on whose character is not one of these, or is
\* one of these, or the end of the text.
Minimum(places) == CHOOSE i \in places : \A j \in places : i <= j
After(at, chars) == Minimum({i \in at .. Len(text) : CharAt(i) \notin chars} \cup {Len(text)})
Before(at, chars) == Minimum({i \in at .. Len(text) : CharAt(i) \in chars} \cup {Len(text)})

\* match_str
MatchStr(at, s) == at + Len(s) <= Len(text) /\ SubSeq(text, at + 1, at + Len(s)) = s

\* read_char up to a place: a new line is a new row.
NewLines(from, to) == {i \in from .. to - 1 : CharAt(i) = "\n"}
RowAt(at) == row + Cardinality(NewLines(position, at))
ColAt(at) ==
    LET lines == NewLines(position, at)
    IN  IF lines = {} THEN col + at - position
        ELSE at - 1 - CHOOSE i \in lines : \A j \in lines : j <= i

ReadTo(at) == position' = at /\ row' = RowAt(at) /\ col' = ColAt(at)

\* token_new, for a token that starts at one place and ends before another.
NewToken(type, val, at, end) ==
    /\ tokens' = Append(tokens, [type |-> type, val |-> val, row |-> RowAt(at), col |-> ColAt(at)])
    /\ ReadTo(end)
    /\ UNCHANGED <<text, scanning>>

LexerError(at) == scanning' = "error" /\ ReadTo(at) /\ UNCHANGED <<text, tokens>>

-----------------------------------------------------------------------------
(***************************************************************************)
(* What may be at the first place after the blanks.                        *)
(***************************************************************************)
EndOfText(at) ==
    /\ CharAt(at) = ""
    /\ ReadTo(at) /\ scanning' = "done" /\ UNCHANGED <<text, tokens>>

\* A comment ends with its line.  The end of the text is no end: peek_char
\* gives -1 there, which is not 0.
ScanComment(at) ==
    /\ CharAt(at) = "#"
    /\ LET end == Before(at, {"\n"})
       IN  IF end < Len(text) THEN ReadTo(end + 1) /\ UNCHANGED scanning
           ELSE ReadTo(end) /\ scanning' = "comment"
    /\ UNCHANGED <<text, tokens>>

ScanIdentifier(at) ==
    /\ CharAt(at) \in Letters
    /\ LET end == After(at, Letters \cup Digits)
           word == SubSeq(text, at + 1, end)
       IN  NewToken(IF word \in Keywords THEN "keyword" ELSE "ident", word, at, end)

\* A dot after digits belongs to the number, whatever follows it.
ScanNumber(at) ==
    /\ CharAt(at) \in Digits
    /\ LET dot == After(at, Digits)
           float == CharAt(dot) = "."
           end == IF float THEN After(dot + 1, Digits) ELSE dot
       IN  NewToken(IF float THEN "float" ELSE "int", SubSeq(text, at + 1, end), at, end)

\* Inside a string literal that begins at a place: the characters that escape
\* the one behind them, where the closing quote is, or the end of the text,
\* and the value up to there.  (No TLA+ string holds a backspace.)
Escaping(from) ==
    LET escapes[i \in from .. Len(text)] == CharAt(i) = "\\" /\ (i = from \/ ~escapes[i - 1])
    IN  {i \in from .. Len(text) : escapes[i]}
Quote(from) ==
    Minimum({i \in from .. Len(text) : CharAt(i) = "\"" /\ i - 1 \notin Escaping(from)} \cup {Len(text)})
Unescaped(c) ==
    CASE c = "n" -> "\n" [] c = "t" -> "\t" [] c = "r" -> "\r" [] c = "b" -> "<backspace>" [] OTHER -> c
Literal(from, end) ==
    FoldLeft(LAMBDA s, i : IF i \in Escaping(from) THEN s
                           ELSE s \o (IF i - 1 \in Escaping(from) THEN Unescaped(CharAt(i)) ELSE CharAt(i)),
             "", [k \in 1 .. end - from |-> from + k - 1])

ScanString(at) ==
    /\ CharAt(at) = "\""
    /\ LET end == Quote(at + 1)
       IN  IF end = Len(text) THEN LexerError(end)
           ELSE NewToken("string", Literal(at + 1, end), at, end + 1)

\* Any other character: the first symbol of the table, if there is one.
Others == {"", "#", "\""} \cup Letters \cup Digits
SymbolsAt(at) == {i \in DOMAIN Symbols : MatchStr(at, Symbols[i])}

\* Mutant: the shortest symbol is tried first.
ScanSymbolShortest(at) ==
    /\ CharAt(at) \notin Others
    /\ LET found == SymbolsAt(at)
       IN  IF found = {} THEN LexerError(at)
           ELSE LET s == Symbols[CHOOSE i \in found : \A j \in found : i >= j]
                IN  NewToken(s, s, at, at + Len(s))

ScanSymbol(at) ==
    /\ CharAt(at) \notin Others
    /\ LET found == SymbolsAt(at)
       IN  IF found = {} THEN LexerError(at)
           ELSE LET s == Symbols[CHOOSE i \in found : \A j \in found : i <= j]
                IN  NewToken(s, s, at, at + Len(s))

\* _GaLexer_ScanStr
NextToken ==
    /\ scanning = "on"
    /\ \E at \in {After(position, Blanks)} :
            \/ EndOfText(at) \/ ScanComment(at) \/ ScanIdentifier(at) \/ ScanNumber(at)
            \/ ScanString(at) \/ ScanSymbol(at)

=============================================================================
