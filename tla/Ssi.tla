-------------------------------- MODULE Ssi --------------------------------
(***************************************************************************)
(* Server side includes: send_ssi_file reads a file character by character *)
(* into one buffer, sends text and HTML tags on, and replaces SSI tags by  *)
(* a file, which may be an SSI file too, or by the output of a program.    *)
(* A file is read as it comes; a character is its kind and its number in   *)
(* the order of reading.  The five characters that begin an SSI tag are    *)
(* two here: "<" and one that tells include, exec and unknown tags apart.  *)
(***************************************************************************)
EXTENDS Integers, Sequences, SequencesExt

CONSTANTS SsiBuffer,   \* MG_BUF_LEN
          SsiMaxLevel, \* 10, the deepest include_level
          MaxSsi       \* bound: characters that are read and sent

ASSUME SsiAssumption == SsiBuffer \in Nat /\ SsiBuffer > 3 /\ {SsiMaxLevel, MaxSsi} \subseteq Nat

VARIABLES ssiPc,     \* "idle", "send" or "closed"
          ssiFiles,  \* the files that are open, the innermost last
          ssiRead,   \* how many characters were read or sent from elsewhere
          ssiOut,    \* the numbers of the characters sent
          ssiDue     \* characters of files that are finished, without their SSI tags

ssiVars == <<ssiPc, ssiFiles, ssiRead, ssiOut, ssiDue>>

SsiOpeners == {"#include", "#exec", "#other"}
SsiChars == {"t", "<", ">"} \cup SsiOpeners

SsiInit == ssiPc = "idle" /\ ssiFiles = <<>> /\ ssiRead = 0 /\ ssiOut = <<>> /\ ssiDue = {}

NewFile(level) == [level |-> level, in_tag |-> FALSE, in_ssi_tag |-> FALSE, buf |-> <<>>, text |-> <<>>]
Inner == Last(ssiFiles)
SetInner(f) == Front(ssiFiles) \o <<f>>
InnerWith(in_tag, in_ssi_tag, buf) ==
    [level |-> Inner.level, in_tag |-> in_tag, in_ssi_tag |-> in_ssi_tag, buf |-> buf, text |-> Inner.text]

\* A tag begins at the character m of a file: a "<" at which no other tag is open.
BeginsTag(s, m) ==
    s[m].c = "<" /\ \A k \in 1..(m - 1) : s[k].c = "<" => \E e \in k..(m - 1) : s[e].c = ">"

\* The character n is in a tag that is closed, and an SSI tag by its second character.
InSsiTag(s, n) ==
    \E m \in 1..n : /\ BeginsTag(s, m) /\ \A k \in m..(n - 1) : s[k].c # ">"
                    /\ \E e \in n..Len(s) : s[e].c = ">"
                    /\ s[m + 1].c \in SsiOpeners
Due(s) == {s[n].id : n \in {m \in 1..Len(s) : ~InSsiTag(s, m)}}

-----------------------------------------------------------------------------
\* handle_ssi_file_request: the file is opened, or the answer is an error; the header is
\* sent without a length, so that the connection has to be closed.
SsiOpen ==
    /\ ssiPc = "idle" /\ ssiPc' = "send" /\ ssiFiles' = <<NewFile(0)>>
    /\ UNCHANGED <<ssiRead, ssiOut, ssiDue>>

SsiOpenFails ==
    /\ ssiPc = "idle" /\ ssiPc' = "closed" /\ UNCHANGED <<ssiFiles, ssiRead, ssiOut, ssiDue>>

\* One character of the innermost file; write is what is sent, f the file after it.
SsiReads(c, f, write) ==
    /\ ssiFiles # <<>> /\ ssiRead < MaxSsi /\ ssiRead' = ssiRead + 1
    /\ ssiFiles' = SetInner([f EXCEPT !.text = Append(@, [c |-> c, id |-> ssiRead + 1])])
    /\ ssiOut' = ssiOut \o write /\ UNCHANGED <<ssiPc, ssiDue>>

WithNext(f) == Append(f.buf, ssiRead + 1)

\* Mutant: the text before a tag is not sent before the tag takes its place.
TagOpensUnsent ==
    /\ ~Inner.in_tag
    /\ SsiReads("<", InnerWith(TRUE, FALSE, <<ssiRead + 1>>), <<>>)

\* A tag begins: what the buffer holds is sent first.
TagOpens ==
    /\ ~Inner.in_tag
    /\ SsiReads("<", InnerWith(TRUE, FALSE, <<ssiRead + 1>>), Inner.buf)

\* Text goes into the buffer, which is sent when it is full.
TextChar(c) ==
    /\ ~Inner.in_tag /\ c # "<"
    /\ IF Len(Inner.buf) + 1 = SsiBuffer
       THEN SsiReads(c, [Inner EXCEPT !.buf = <<>>], WithNext(Inner))
       ELSE SsiReads(c, [Inner EXCEPT !.buf = WithNext(Inner)], <<>>)

\* The tag goes on; its second character tells whether it is an SSI tag.
TagChar(c) ==
    /\ Inner.in_tag /\ c # ">" /\ Len(Inner.buf) + 3 <= SsiBuffer
    /\ SsiReads(c, InnerWith(TRUE, Inner.in_ssi_tag \/ (Len(Inner.buf) = 1 /\ c \in SsiOpeners),
                             WithNext(Inner)), <<>>)

\* A tag that is too long for the buffer: the rest of the file is given up, with the tag.
TagTooLarge(c) ==
    /\ ssiFiles # <<>> /\ Inner.in_tag /\ c # ">" /\ Len(Inner.buf) + 3 > SsiBuffer /\ ssiRead < MaxSsi
    /\ ssiRead' = ssiRead + 1 /\ ssiFiles' = Front(ssiFiles)
    /\ ssiDue' = ssiDue \cup (Due(Inner.text) \ ToSet(Inner.buf))
    /\ UNCHANGED <<ssiPc, ssiOut>>

\* An HTML tag ends and is sent.
HtmlTagCloses ==
    /\ Inner.in_tag /\ ~Inner.in_ssi_tag
    /\ SsiReads(">", InnerWith(FALSE, FALSE, <<>>), WithNext(Inner))

\* The tag in the buffer is an SSI tag of this kind.
SsiTag(kind) ==
    Inner.in_ssi_tag /\ \E n \in DOMAIN Inner.text : Inner.text[n] = [c |-> kind, id |-> Inner.buf[2]]
TagDone == [InnerWith(FALSE, FALSE, <<>>) EXCEPT !.text = Append(@, [c |-> ">", id |-> ssiRead + 1])]

\* An SSI tag that names no file that can be opened, or no program, or nothing known.
SsiTagNothing ==
    /\ Inner.in_ssi_tag
    /\ SsiReads(">", InnerWith(FALSE, FALSE, <<>>), <<>>)

\* A static file, or the output of a program, is sent in the place of the tag.
SsiTagData ==
    /\ SsiTag("#include") \/ SsiTag("#exec")
    /\ ssiRead + 1 < MaxSsi /\ ssiRead' = ssiRead + 2
    /\ ssiFiles' = SetInner(TagDone)
    /\ ssiOut' = Append(ssiOut, ssiRead + 2) /\ ssiDue' = ssiDue \cup {ssiRead + 2}
    /\ UNCHANGED ssiPc

\* An SSI file is included, two levels deeper: do_ssi_include counts one and its caller
\* another; a file that is too deep is not sent.
SsiTagIncludes ==
    /\ SsiTag("#include") /\ ssiRead < MaxSsi /\ ssiRead' = ssiRead + 1
    /\ LET level == Inner.level + 2
       IN  ssiFiles' = SetInner(TagDone) \o (IF level > SsiMaxLevel THEN <<>> ELSE <<NewFile(level)>>)
    /\ UNCHANGED <<ssiPc, ssiOut, ssiDue>>

\* The end of a file: what is in the buffer is sent.
SsiFileEnds ==
    /\ ssiFiles # <<>> /\ ssiFiles' = Front(ssiFiles)
    /\ ssiOut' = ssiOut \o Inner.buf /\ ssiDue' = ssiDue \cup Due(Inner.text)
    /\ UNCHANGED <<ssiPc, ssiRead>>

\* The request is answered, and the connection closed.
SsiDone ==
    /\ ssiPc = "send" /\ ssiFiles = <<>> /\ ssiPc' = "closed"
    /\ UNCHANGED <<ssiFiles, ssiRead, ssiOut, ssiDue>>

SsiNext ==
    \/ SsiOpen \/ SsiOpenFails \/ SsiDone
    \/ /\ ssiFiles # <<>>
       /\ \/ TagOpens \/ HtmlTagCloses \/ SsiTagNothing \/ SsiTagData \/ SsiTagIncludes \/ SsiFileEnds
          \/ \E c \in SsiChars : TextChar(c) \/ TagChar(c) \/ TagTooLarge(c)

-----------------------------------------------------------------------------
(* Properties *)

\* What is outside SSI tags is sent exactly once and in the order of reading, included files
\* in the place of their tag, and nothing of an SSI tag is sent, however tags and text fall
\* on the one buffer (civetweb.c send_ssi_file); the files that are open are no deeper than
\* the level allows.
SsiInOrder ==
    /\ \A i, j \in DOMAIN ssiOut : i < j => ssiOut[i] < ssiOut[j]
    /\ ToSet(ssiOut) \cup UNION {ToSet(ssiFiles[i].buf) \cap Due(ssiFiles[i].text) : i \in DOMAIN ssiFiles}
         = ssiDue \cup UNION {Due(ssiFiles[i].text) : i \in DOMAIN ssiFiles}
    /\ \A i \in DOMAIN ssiFiles : ToSet(ssiFiles[i].buf) \cap ToSet(ssiOut) = {}
    /\ 2 * (Len(ssiFiles) - 1) <= SsiMaxLevel
=============================================================================
