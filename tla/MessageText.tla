---------------------------- MODULE MessageText ----------------------------
(***************************************************************************)
(* Parsing a request or a response in the buffer of a connection: the      *)
(* words of the first line, the headers, and quoted values (of the         *)
(* Authorization header).  A character stands for its class: "r" and "n"   *)
(* are CR and LF, "M" a method, "H" the key "HTTP/", "D" a number of three *)
(* digits, "q" the quoting character, "a" any other word character.        *)
(***************************************************************************)
EXTENDS Integers, Sequences

CONSTANTS MessageChars,   \* [kind -> characters]
          MaxMessage,     \* [kind -> length]: bound on the texts of the kind
          MaxParsed       \* MG_MAX_HEADERS

VARIABLES mkind, mtext
messageVars == <<mkind, mtext>>

MessageKinds == {"headers", "request", "response", "quoted"}

ASSUME MessageTextAssumption ==
    MaxParsed \in Nat \ {0} /\ DOMAIN MaxMessage = MessageKinds /\ DOMAIN MessageChars = MessageKinds

MessageInit == mkind = "headers" /\ mtext = <<>>

\* The peer sends another message.
MessageChar(c) ==
    /\ Len(mtext) < MaxMessage[mkind]
    /\ mtext' = Append(mtext, c) /\ UNCHANGED mkind
NewMessage(k) == mtext # <<>> /\ mkind' = k /\ mtext' = <<>>

MessageNext ==
    (\E c \in MessageChars[mkind] : MessageChar(c)) \/ \E k \in MessageKinds : NewMessage(k)

-----------------------------------------------------------------------------
\* The character at an index that counts from 0, "" where the text ends.
CharAt(t, i) == IF i < Len(t) THEN t[i + 1] ELSE ""
Behind(t, n) == SubSeq(t, n + 1, Len(t))
Word(t, i, j) == SubSeq(t, i + 1, j)
Invalid == <<"invalid">>
BadHeaders == <<[name |-> <<>>, value |-> <<>>]>>

\* The index where a run of characters of a set that starts at i ends.
RunEnd(t, i, set) ==
    LET ends == {k \in i..Len(t) : CharAt(t, k) \notin set}
    IN  IF i >= Len(t) THEN i ELSE CHOOSE k \in ends : \A m \in ends : k <= m

Space == {" ", "r", "n"}
Graph == {"a", "M", "H", "D", ":", "q", "d"}

\* Mutant: the blanks in front of a value belong to it.
ValueStartNext(t, colon) == colon + 1

\* Blanks behind the colon are skipped.
ValueStart(t, colon) == RunEnd(t, colon + 1, {" "})

\* parse_http_headers: up to an empty line, the end of the text or the limit.
RECURSIVE Headers(_, _)
Headers(t, left) ==
    LET nameEnd == RunEnd(t, 0, Graph \ {":"})
        colon == RunEnd(t, nameEnd, {" "})
        valueAt == ValueStart(t, colon)
        valueEnd == RunEnd(t, valueAt, Graph \cup {" "})
        lineEnd == IF CharAt(t, valueEnd) = "r" THEN valueEnd + 1 ELSE valueEnd
        header == [name |-> Word(t, 0, nameEnd), value |-> Word(t, valueAt, valueEnd)]
        more == Headers(Behind(t, lineEnd + 1), left - 1)
    IN  IF left = 0 \/ nameEnd = 0 THEN <<>>
        ELSE IF CharAt(t, colon) # ":" THEN BadHeaders
        ELSE IF CharAt(t, valueEnd) = "r" /\ CharAt(t, lineEnd) # "n" THEN BadHeaders
        ELSE IF CharAt(t, lineEnd) = "" \/ CharAt(t, lineEnd + 1) \in {"r", "n"} THEN <<header>>
        ELSE IF more = BadHeaders THEN BadHeaders ELSE <<header>> \o more

\* Mutant: only one blank may follow a word.
NextWordAtOnce(t, i, eol) ==
    LET end == RunEnd(t, i, Graph)
    IN  IF CharAt(t, end) \in (IF eol THEN {"r", "n"} ELSE {" "}) /\ (eol \/ CharAt(t, end + 1) \in Graph)
        THEN end + 1 ELSE -1

\* skip_to_end_of_word_and_terminate: where the next word starts, -1 for an error.  The
\* blanks that are skipped behind a word may be the end of the line.
NextWord(t, i, eol) ==
    LET end == RunEnd(t, i, Graph)
        next == RunEnd(t, end, Space)
    IN  IF CharAt(t, end) \in (IF eol THEN {"r", "n"} ELSE {" "}) /\ (eol \/ CharAt(t, next) \in Graph)
        THEN next ELSE -1

\* get_http_header_len: the end of the first empty line, 0 when it is still to come.
BlankLineEnd(t) ==
    LET ends == {i \in 2..Len(t) : \/ SubSeq(t, i - 1, i) = <<"n", "n">>
                                   \/ i > 3 /\ SubSeq(t, i - 3, i) = <<"r", "n", "r", "n">>}
    IN  IF ends = {} THEN 0 ELSE CHOOSE i \in ends : \A j \in ends : i <= j

\* What both parsers start with: leading blanks are skipped, and the last LF of the head
\* becomes the terminating zero.
Head0(t) ==
    LET s == Behind(t, RunEnd(t, 0, Space))
    IN  SubSeq(s, 1, BlankLineEnd(s) - 1)

\* parse_http_request: method, URI and version, or Invalid.
ParseRequest(t) ==
    LET s == Head0(t)
        uri == NextWord(s, 0, FALSE)
        version == NextWord(s, uri, FALSE)
        headers == NextWord(s, version, TRUE)
    IN  IF s = <<>> \/ uri = -1 THEN Invalid
        ELSE IF version = -1 THEN Invalid
        ELSE IF headers = -1 THEN Invalid
        ELSE IF CharAt(s, version) # "H" \/ Word(s, 0, RunEnd(s, 0, Graph)) # <<"M">> THEN Invalid
        ELSE IF Headers(Behind(s, headers), MaxParsed) = BadHeaders THEN Invalid
        ELSE <<Word(s, 0, RunEnd(s, 0, Graph)), Word(s, uri, RunEnd(s, uri, Graph)),
               Word(s, version + 1, RunEnd(s, version, Graph))>>

\* parse_http_response: version, status and text, or Invalid.  The text starts at the next
\* word behind the status, which may be on the next line.
ParseResponse(t) ==
    LET s == Head0(t)
        status == NextWord(s, 1, FALSE)
        text == NextWord(s, status, FALSE)
        textEnd == RunEnd(s, text, Graph \cup {" "})
    IN  IF CharAt(s, 0) # "H" \/ CharAt(s, 1) \notin Graph \/ status = -1 THEN Invalid
        ELSE IF text = -1 THEN Invalid
        ELSE IF Word(s, status, RunEnd(s, status, Graph)) # <<"D">> THEN Invalid
        ELSE IF CharAt(s, textEnd) \notin {"r", "n"} THEN Invalid
        ELSE IF Headers(Behind(s, RunEnd(s, textEnd, Space)), MaxParsed) = BadHeaders THEN Invalid
        ELSE <<Word(s, 1, RunEnd(s, 1, Graph)), <<"D">>, Word(s, text, textEnd)>>

\* Mutant: a delimiter ends the word, quoted or not.
QuotedLoopOnce(word, t) ==
    LET end == RunEnd(t, 0, {"a", "q", " "})
        w == word \o Word(t, 0, end)
    IN  [word |-> w, rest |-> IF end >= Len(t) THEN <<>> ELSE Behind(t, end)]

\* skip_quoted: "d" is the delimiter.  While the character in front of it is the quoting
\* one, the delimiter takes its place and the word goes on; at the end of the text the
\* quoting character is dropped.
RECURSIVE QuotedLoop(_, _)
QuotedLoop(word, t) ==
    LET end == RunEnd(t, 0, {"a", "q", " "})
        w == word \o Word(t, 0, end)
        quoted == w # <<>> /\ w[Len(w)] = "q"
        bare == SubSeq(w, 1, Len(w) - 1)
    IN  IF end >= Len(t) THEN [word |-> IF quoted THEN bare ELSE w, rest |-> <<>>]
        ELSE IF quoted THEN QuotedLoop(Append(bare, "d"), Behind(t, end + 1))
        ELSE [word |-> w, rest |-> Behind(t, end)]

\* ... and the blanks behind the delimiter are skipped with it.
SkipQuoted(t) ==
    LET r == QuotedLoop(<<>>, t)
    IN  [r EXCEPT !.rest = IF @ = <<>> THEN @ ELSE Behind(@, RunEnd(@, 1, {" "}))]

-----------------------------------------------------------------------------
(* Reference definitions *)

\* The lines of a text up to the first empty one, each without its line end.
RECURSIVE LinesOf(_)
LinesOf(t) ==
    LET lf == RunEnd(t, 0, Graph \cup {" ", "r"})
        end == IF lf > 0 /\ t[lf] = "r" /\ (lf = 1 \/ lf < Len(t)) THEN lf - 1 ELSE lf
    IN  IF t = <<>> \/ end = 0 THEN <<>> ELSE <<Word(t, 0, end)>> \o LinesOf(Behind(t, lf + 1))

\* A header line: a name without blanks, a colon, a value without CR.
HeaderLine(l) ==
    \E c \in DOMAIN l :
        /\ l[c] = ":" /\ c > 1 /\ \A i \in 1..(c - 1) : l[i] = "a"
        /\ \A i \in DOMAIN l : l[i] # "r"

RECURSIVE WordsOf(_)
WordsOf(t) ==
    LET s == Behind(t, RunEnd(t, 0, Space))
        end == RunEnd(s, 0, Graph)
    IN  IF s = <<>> THEN <<>> ELSE <<Word(s, 0, end)>> \o WordsOf(Behind(s, end))

\* Headers that are well formed are all found, in order and up to the limit, each with its
\* own name and value, whether lines end with CR LF or LF (parse_http_headers); a text that
\* is refused has a line that is no header.
HeadersExact ==
    mkind = "headers" =>
        LET lines == LinesOf(mtext)
            parsed == Headers(mtext, MaxParsed)
            good == \A i \in DOMAIN lines : HeaderLine(lines[i])
            n == IF Len(lines) < MaxParsed THEN Len(lines) ELSE MaxParsed
        IN  good => /\ parsed # BadHeaders /\ Len(parsed) = n
                    /\ \A i \in 1..n :
                         LET c == RunEnd(lines[i], 0, {"a"})
                         IN  /\ parsed[i].name = Word(lines[i], 0, c)
                             /\ parsed[i].value = Behind(lines[i], RunEnd(lines[i], c + 1, {" "}))

\* A request that is accepted has a known method, a URI and a version, the first three
\* words of the text; and a line of three such words, separated by blanks and ended by a
\* line end, is accepted (parse_http_request).
RequestExact ==
    mkind = "request" =>
        LET t == mtext \o <<"r", "n", "r", "n">>
            words == WordsOf(t)
            r == ParseRequest(t)
        IN  /\ r # Invalid => /\ Len(words) >= 3 /\ words[1] = <<"M">> /\ words[3][1] = "H"
                              /\ r = <<words[1], words[2], Tail(words[3])>>
            /\ /\ Len(WordsOf(mtext)) = 3 /\ words[1] = <<"M">> /\ words[3][1] = "H"
               /\ \A i \in DOMAIN mtext : mtext[i] \notin {"r", "n"}
               /\ mtext[Len(mtext)] # " "
               => r # Invalid

\* skip_quoted: the word ends at the first delimiter that is not quoted, quoting characters
\* in front of delimiters are gone and all other characters are there; the rest starts
\* behind the delimiter and the blanks.
QuotedExact ==
    mkind = "quoted" =>
        LET ends == {i \in DOMAIN mtext : mtext[i] = "d" /\ (i = 1 \/ mtext[i - 1] # "q")}
            end == IF ends = {} THEN Len(mtext) + 1 ELSE CHOOSE i \in ends : \A j \in ends : i <= j
            kept == {i \in 1..(end - 1) :
                        ~(mtext[i] = "q" /\ (i = Len(mtext) \/ (i + 1 < end /\ mtext[i + 1] = "d")))}
            indices == SelectSeq([i \in DOMAIN mtext |-> i], LAMBDA i : i \in kept)
            r == SkipQuoted(mtext)
        IN  /\ r.word = [k \in DOMAIN indices |-> mtext[indices[k]]]
            /\ r.rest = Behind(mtext, IF end >= Len(mtext) THEN Len(mtext) ELSE RunEnd(mtext, end, {" "}))

\* "must be a end of a word, but not a line" (the comment of
\* skip_to_end_of_word_and_terminate): the text of a status line ends with the line.  With an
\* empty text the first header is taken for it.
StatusTextOnLine ==
    mkind = "response" =>
        LET t == mtext \o <<"r", "n", "r", "n">>
            r == ParseResponse(t)
            line == IF LinesOf(t) = <<>> THEN <<>> ELSE LinesOf(t)[1]
        IN  r # Invalid /\ t[1] = "H" => Len(r[1]) + Len(r[3]) + 4 <= Len(line)
=============================================================================
