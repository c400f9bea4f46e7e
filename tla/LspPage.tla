------------------------------ MODULE LspPage ------------------------------
(***************************************************************************)
(* Lua server pages (mod_lua.inl): text with Lua code in tags.  A page in  *)
(* CivetWeb's own syntax is written and executed tag by tag, one in Kepler *)
(* syntax is first translated to one Lua script by a reader that the Lua   *)
(* library calls again and again.  A page is a sequence of characters,     *)
(* among them "lua" for the three letters behind a tag; what Lua code does *)
(* is left out, and what counts is which characters of the page are        *)
(* written as text, executed as a chunk or printed as an expression.       *)
(* How pages include others is the second part.                            *)
(***************************************************************************)
EXTENDS Integers, Sequences, FiniteSetsExt

CONSTANTS LspPages,   \* the pages
          LspBlock,   \* MG_BUF_LEN / 100, what the reader looks at in one call
          LspMaxDepth \* LSP_INCLUDE_MAX_DEPTH

ASSUME LspPageAssumption == LspBlock \in Nat /\ LspBlock > 1
ASSUME LspTextAssumption == \A page \in LspPages: Len(page) \in Nat \ {0}
ASSUME LspIncludeAssumption == LspMaxDepth \in Nat \ {0}

VARIABLES lspPage,    \* the page
          lspReader,  \* where its processing is
          lspOut      \* what was done with its characters, in this order

lspVars == <<lspPage, lspReader, lspOut>>

Marks == {"?", "%"}
LspStart == [run |-> "none", at |-> 0, state |-> 0, tag |-> ""]
LspInit == lspPage = <<>> /\ lspReader = LspStart /\ lspOut = <<>>

\* The character at a position, counted from 0; the bytes behind a mapped file are zero.
Ch(k) == IF k < Len(lspPage) THEN lspPage[k + 1] ELSE ""

\* The characters from..to-1, used in one way.
Use(kind, from, to) == [k \in 1..(to - from) |-> [kind |-> kind, at |-> from + k - 1]]

\* A page that begins like HTML is in Kepler syntax.
ChooseSyntax(page) ==
    /\ lspPage' = page
    /\ lspReader' = [LspStart EXCEPT !.run =
           IF page[1] = "<" /\ (Len(page) > 1 => page[2] # "?") THEN "kepler" ELSE "civetweb"]
    /\ UNCHANGED lspOut

LspEnds(how) == lspReader' = [lspReader EXCEPT !.run = how]

-----------------------------------------------------------------------------
(* run_lsp_civetweb *)

Opens(i) == i + 1 < Len(lspPage) /\ Ch(i) = "<" /\ Ch(i + 1) \in Marks
Skip(i) == IF Ch(i + 2) = "lua" THEN 1 ELSE 0
IsVar(i) == Ch(i + Skip(i) + 2) = "="

\* Where a tag that opens at i can close.
ClosesTag(i) ==
    {j \in (IF IsVar(i) THEN i + 2 ELSE i + 1)..Len(lspPage) - 2:
        Ch(j) = Ch(i + 1) /\ Ch(j + 1) = ">"}

\* The tags from the current position on that are closed; any other is text.
ClosedTags == {i \in lspReader.at..Len(lspPage) - 1: Opens(i) /\ ClosesTag(i) # {}}

\* Mutant: the position behind a tag is one too far.
BehindTagOff(j) == j + 3

BehindTag(j) == j + 2

\* The text before the next tag is written and the tag's code is executed.  The tag "<?>"
\* is taken for one whose code has the length -1.
RunTag(ok) ==
    LET i == Min(ClosedTags)
        j == Min(ClosesTag(i))
        code == i + 2 + Skip(i) + (IF IsVar(i) THEN 1 ELSE 0)
        before == lspOut \o Use("text", lspReader.at, i)
    IN  /\ lspReader.run = "civetweb" /\ ClosedTags # {} /\ UNCHANGED lspPage
        /\ IF code > j THEN ~ok /\ LspEnds("fault") /\ lspOut' = before
           ELSE /\ lspOut' = before \o Use(IF IsVar(i) THEN "print" ELSE "execute", code, j)
                /\ IF ok THEN lspReader' = [lspReader EXCEPT !.at = BehindTag(j)]
                   ELSE LspEnds("failed")

RunRest ==
    /\ lspReader.run = "civetweb" /\ ClosedTags = {} /\ UNCHANGED lspPage
    /\ LspEnds("done") /\ lspOut' = lspOut \o Use("text", lspReader.at, Len(lspPage))

-----------------------------------------------------------------------------
(* lsp_kepler_reader: one action is one call.  State 1 is text, 2 a chunk, *)
(* 3 an expression.                                                        *)

ReaderIn(state) == lspReader.run = "kepler" /\ lspReader.state = state /\ UNCHANGED lspPage
Left == Min({Len(lspPage) - lspReader.at, LspBlock})

\* How many characters from the current position on come before a given one.
Before(char) ==
    Min({i \in 0..Left: i = Left \/ Ch(lspReader.at + i) = char})

\* The reader hands over the next n characters.
Forward(n) ==
    /\ lspOut' = lspOut \o Use(<<"text", "execute", "print">>[lspReader.state],
                               lspReader.at, lspReader.at + n)
    /\ lspReader' = [lspReader EXCEPT !.at = @ + n]

KeplerBegin ==
    /\ ReaderIn(0) /\ lspReader' = [lspReader EXCEPT !.state = 1] /\ UNCHANGED lspOut

\* At the end of the page the text is closed, also inside a tag; then Lua rejects the script.
KeplerEnd ==
    /\ \E state \in 1..3: ReaderIn(state)
    /\ Left = 0 /\ UNCHANGED lspOut
    /\ \/ lspReader.state = 1 /\ \E how \in {"done", "failed"}: LspEnds(how)
       \/ lspReader.state # 1 /\ LspEnds("rejected")

\* The length of the opening tag at the current position, 0 if there is none.
OpeningTag ==
    LET at == lspReader.at
    IN  IF Ch(at) # "<" \/ Ch(at + 1) \notin Marks THEN 0
        ELSE IF Ch(at + 1) = "?" /\ Ch(at + 2) = "lua" THEN 3 ELSE 2

\* A "<" that opens no tag goes with the text up to the next one.
KeplerText ==
    LET next == Before("<")
        other == Min({i \in 1..Left: i = Left \/ Ch(lspReader.at + i) = "<"})
    IN  /\ ReaderIn(1) /\ Left > 0
        /\ \/ next > 0 /\ Forward(next)
           \/ next = 0 /\ OpeningTag = 0 /\ Forward(other)

KeplerOpen ==
    LET n == OpeningTag
        isVar == Ch(lspReader.at + n) = "="
    IN  /\ ReaderIn(1) /\ Left > 0 /\ n > 0 /\ UNCHANGED lspOut
        /\ lspReader' = [run |-> "kepler", at |-> lspReader.at + n + (IF isVar THEN 1 ELSE 0),
                         state |-> IF isVar THEN 3 ELSE 2, tag |-> Ch(lspReader.at + 1)]

\* Mutant: a closing tag at the end of a block is overlooked.
CloseFoundInside == 2 < Left /\ Ch(lspReader.at) = lspReader.tag /\ Ch(lspReader.at + 1) = ">"

CloseFound == 1 < Left /\ Ch(lspReader.at) = lspReader.tag /\ Ch(lspReader.at + 1) = ">"

KeplerCode ==
    LET next == Before(lspReader.tag)
        other == Min({i \in 1..Left: i = Left \/ Ch(lspReader.at + i) = lspReader.tag})
    IN  /\ ReaderIn(2) \/ ReaderIn(3)
        /\ Left > 0 /\ ~CloseFound /\ Forward(IF next > 0 THEN next ELSE other)

KeplerClose ==
    /\ ReaderIn(2) \/ ReaderIn(3)
    /\ Left > 0 /\ CloseFound /\ UNCHANGED lspOut
    /\ lspReader' = [run |-> "kepler", at |-> lspReader.at + 2, state |-> 1, tag |-> lspReader.tag]

-----------------------------------------------------------------------------
LspNext ==
    \/ lspReader.run = "none" /\ \E page \in LspPages: ChooseSyntax(page)
    \/ (\E ok \in BOOLEAN: RunTag(ok)) \/ RunRest
    \/ KeplerBegin \/ KeplerText \/ KeplerOpen \/ KeplerCode \/ KeplerClose \/ KeplerEnd

-----------------------------------------------------------------------------
(* Pages that include others (handle_lsp_request, lsp_include), and plain  *)
(* Lua scripts (mg_exec_lua_script).  Every page on the stack has its file *)
(* open and mapped; an error in Lua code leaves all C functions up to the  *)
(* next protected call at once, which is the one of the page that was      *)
(* running, or one in the Lua code itself.  Lua code leaves mg.write as it *)
(* is.                                                                     *)

VARIABLES incRun,    \* what the connection's worker does
          incStack,  \* pages that run, the innermost last
          incDepth,  \* include_history->depth
          incFiles,  \* open files
          incMaps,   \* mapped files
          incLua     \* the Lua state exists

incVars == <<incRun, incStack, incDepth, incFiles, incMaps, incLua>>

IncInit ==
    /\ incRun = "none" /\ incStack = <<>> /\ incDepth = 0
    /\ incFiles = 0 /\ incMaps = 0 /\ incLua = FALSE

-----------------------------------------------------------------------------
(* handle_lsp_request *)

\* A file that cannot be opened: for the page itself the reply is 500, for an included one
\* it is an error in the Lua code that included it.
NotOpened ==
    /\ \/ incRun = "none" /\ incRun' = "done"
       \/ incRun = "including" /\ incRun' = "error"
    /\ UNCHANGED <<incStack, incDepth, incFiles, incMaps, incLua>>

\* A file that cannot be mapped (an empty one) is noticed only if mmap returns NULL; it
\* returns MAP_FAILED, and the first byte of the page is read there.
NotMapped ==
    /\ incRun \in {"none", "including"} /\ incRun' = "fault"
    /\ incFiles' = incFiles + 1 /\ UNCHANGED <<incStack, incDepth, incMaps, incLua>>

\* The file is mapped but there is no Lua state for the page: both are released.
NoLuaState ==
    /\ incRun = "none" /\ incRun' = "done"
    /\ UNCHANGED <<incStack, incDepth, incFiles, incMaps, incLua>>

\* The page runs, in a Lua state of its own or in the one of the page that includes it.
PageRuns(syntax) ==
    /\ incRun \in {"none", "including"} /\ incRun' = "running"
    /\ incFiles' = incFiles + 1 /\ incMaps' = incMaps + 1 /\ incLua' = TRUE
    /\ incDepth' = incDepth + 1 /\ incStack' = Append(incStack, syntax)

\* What the page that included another one does next: after an error lsp_include raises one
\* there too (lsp_abort).
Resumed(error) == IF error THEN "error" ELSE "running"

\* Mutant: a page that failed returns at once.
LuaPageReturnsEarly(error) ==
    LET rest == SubSeq(incStack, 1, Len(incStack) - 1)
    IN  /\ incRun = (IF error THEN "error" ELSE "running") /\ incStack # <<>>
        /\ incStack' = rest /\ incDepth' = (IF error THEN incDepth ELSE incDepth - 1)
        /\ incFiles' = incFiles - 1 /\ incMaps' = incMaps - 1
        /\ incLua' = (rest # <<>>)
        /\ incRun' = IF rest = <<>> THEN "done" ELSE Resumed(error)

\* run_lsp returns, after an error with 1.  The history is shortened and file, mapping and
\* the page's own Lua state are released.
LuaPageReturns(error) ==
    LET rest == SubSeq(incStack, 1, Len(incStack) - 1)
    IN  /\ incRun = (IF error THEN "error" ELSE "running") /\ incStack # <<>>
        /\ incStack' = rest /\ incDepth' = incDepth - 1
        /\ incFiles' = incFiles - 1 /\ incMaps' = incMaps - 1
        /\ incLua' = (rest # <<>>)
        /\ incRun' = IF rest = <<>> THEN "done" ELSE Resumed(error)

-----------------------------------------------------------------------------
(* The Lua code of a page *)

IncGoes(to) == incRun' = to /\ UNCHANGED <<incStack, incDepth, incFiles, incMaps, incLua>>

\* The code does not load or raises an error.
CodeFails == incRun = "running" /\ incStack # <<>> /\ IncGoes("error")

\* Lua code that called mg.include in protected mode goes on after an error.
CodeCatches == incRun = "error" /\ incStack # <<>> /\ IncGoes("running")

\* Mutant: a page may be included at the largest depth.
lsp_includeDeeper(valid) ==
    /\ incRun = "running" /\ incStack # <<>>
    /\ IncGoes(IF ~valid THEN "error" ELSE IF incDepth > LspMaxDepth THEN "running" ELSE "including")

\* mg.include: wrong arguments are an error, too deep an inclusion is only logged.
lsp_include(valid) ==
    /\ incRun = "running" /\ incStack # <<>>
    /\ IncGoes(IF ~valid THEN "error" ELSE IF incDepth >= LspMaxDepth THEN "running" ELSE "including")

\* A plain Lua script has a state of its own; when it fails the reply is 500.
ScriptRuns ==
    /\ incRun = "none" /\ incRun' = "script" /\ incLua' = TRUE
    /\ UNCHANGED <<incStack, incDepth, incFiles, incMaps>>

ScriptEnds ==
    /\ incRun = "script" /\ incRun' = "done" /\ incLua' = FALSE
    /\ UNCHANGED <<incStack, incDepth, incFiles, incMaps>>

\* The next request for a page.
NextPage == incRun = "done" /\ IncGoes("none")

IncNext ==
    \/ NotOpened \/ NotMapped \/ NoLuaState \/ CodeFails \/ CodeCatches
    \/ ScriptRuns \/ ScriptEnds \/ NextPage
    \/ \E syntax \in {"civetweb", "kepler"}: PageRuns(syntax)
    \/ \E b \in BOOLEAN: LuaPageReturns(b) \/ lsp_include(b)

-----------------------------------------------------------------------------
UsedAt == {lspOut[k].at: k \in DOMAIN lspOut}
Unused == 0..(Len(lspPage) - 1) \ UsedAt
ClosingAt(mark, j) == Ch(j) = mark /\ Ch(j + 1) = ">"

\* Whether position k belongs to a tag's opening, or to its closing.
IsOpening(k) ==
    \E i \in Unused: /\ Opens(i) /\ i + 1 \in Unused
                     /\ k \in i..(i + 3) /\ i..k \subseteq Unused
                     /\ \A b \in (i + 2)..k: Ch(b) \in {"lua", "="}
IsClosing(k) == \E j \in Unused, mark \in Marks: ClosingAt(mark, j) /\ k \in {j, j + 1}

\* What a page that was processed to its end is made of: all characters are used, once and
\* in their order, except those of tags; no closed tag is written as text; and executed or
\* printed is what stands between a tag's opening and its closing, whatever the sizes of the
\* reader's blocks (run_lsp_civetweb, lsp_kepler_reader).  A page is rejected for its tags
\* only if one is not closed.
PageExact ==
    /\ lspReader.run = "rejected" =>
        \E i \in Unused: /\ Opens(i) /\ i + 1 \in Unused
                         /\ \A j \in (i + 2)..(Len(lspPage) - 2): ~ClosingAt(Ch(i + 1), j)
    /\ lspReader.run = "done" =>
        /\ \A k \in 1..Len(lspOut) - 1: lspOut[k].at < lspOut[k + 1].at
        /\ \A k \in Unused: IsOpening(k) \/ IsClosing(k)
        /\ \A n \in DOMAIN lspOut:
            LET k == lspOut[n].at IN
            IF lspOut[n].kind = "text"
            THEN Opens(k) => \A j \in (k + 2)..(Len(lspPage) - 2): ~ClosingAt(Ch(k + 1), j)
            ELSE \E i \in Unused:
                    /\ i < k /\ Opens(i) /\ IsOpening(i)
                    /\ \A j \in (i + 2)..(k - 1): ~ClosingAt(Ch(i + 1), j)
                    /\ lspOut[n].kind = "print" => \E b \in {i + 2, i + 3}: Ch(b) = "=" /\ b \in Unused

\* However pages include each other, fail and catch errors: the depth is the number of
\* pages that run and stays within the array of script names, each of them has its file
\* open and mapped, and nothing is left when the request is done (handle_lsp_request).
PagesBalanced ==
    /\ incDepth = Len(incStack) /\ incDepth <= LspMaxDepth
    /\ incRun # "fault" => incFiles = incDepth /\ incMaps = incDepth
    /\ incRun \in {"none", "done"} => incStack = <<>> /\ ~incLua
=============================================================================
