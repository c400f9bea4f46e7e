--------------------------------- MODULE Form ---------------------------------
(***************************************************************************)
(* mg_handle_form_request (handle_form.inl): the fields of an HTML form are *)
(* taken out of the query string, of a url-encoded body or of a multipart   *)
(* body, while the body streams through a buffer that is smaller than it.   *)
(* Each field is skipped, passed to field_get block by block, or written to *)
(* a file and reported with field_store.                                    *)
(*                                                                          *)
(* A body is a sequence of tokens.  Multipart: "e","f" is the dash-boundary *)
(* and "r" the line end before it, so that "r","e","f" is the delimiter;    *)
(* "H" is a part header, "z" the closing mark; contents are made of "d" and *)
(* of "r", which may begin a delimiter.  Every part has a content, perhaps  *)
(* empty, with its line end.  Url-encoded: "k", "=", "d", "&".              *)
(***************************************************************************)
EXTENDS Integers, Sequences

CONSTANTS
    FormBuffer,   \* sizeof(buf) - 1
    FormContents  \* the forms to send: sequences of field contents

ASSUME FormAssumption ==
    FormBuffer \in Nat /\ FormBuffer > 6 /\ FormContents \subseteq Seq(Seq({"d", "r"}))

VARIABLES
    formPc,
    formKind,    \* "multipart" or "url"
    formFields,  \* the contents the client sends, the current field first
    formCut,     \* the client went away before the end
    formBody,    \* what mg_read has still to deliver
    formBuf,     \* buf, up to buf_fill
    formAt,      \* where the content of the field begins in buf (hend, val)
    formAllRead, \* all_data_read
    formStore,   \* field_storage
    formGot,     \* what field_get or the file received of the current field
    formFile,    \* the file of the current field
    formDone,    \* <<received, sent>> of the field that was completed last
    formAbort    \* 0; 1 when field_get asked to abort; 2 if it is called again

formVars == <<formPc, formKind, formFields, formCut, formBody, formBuf, formAt, formAllRead,
              formStore, formGot, formFile, formDone, formAbort>>

Delimiter == <<"r", "e", "f">>
DelimiterLen == Len(Delimiter)   \* bl + 4

FormInit ==
    /\ formPc = "idle" /\ formKind = "url" /\ formFields = <<>> /\ formCut = FALSE
    /\ formBody = <<>> /\ formBuf = <<>> /\ formAt = 0 /\ formAllRead = FALSE
    /\ formStore = "skip" /\ formGot = <<>> /\ formFile = "none"
    /\ formDone = <<<<>>, <<>>>> /\ formAbort = 0

(***************************************************************************)
(* Bodies, as a client sends them.                                          *)
(***************************************************************************)
FieldText(kind, fields, i) ==
    IF kind = "multipart" THEN <<"e", "f", "H">> \o fields[i] \o <<"r">>
    ELSE <<"k", "=">> \o fields[i] \o (IF i = Len(fields) THEN <<>> ELSE <<"&">>)

SentBody(kind, fields) ==
    LET from[i \in 1..Len(fields) + 1] ==
            IF i > Len(fields) THEN IF kind = "multipart" THEN <<"e", "f", "z">> ELSE <<>>
            ELSE FieldText(kind, fields, i) \o from[i + 1]
    IN  from[1]

FormStart ==
    /\ formPc = "idle"
    /\ \E fields \in FormContents, kind \in {"multipart", "url"}:
        LET sent == IF kind = "url"
                    THEN [i \in DOMAIN fields |-> [j \in DOMAIN fields[i] |-> "d"]] ELSE fields
            whole == SentBody(kind, sent)
        IN \E len \in 1..Len(whole):
             /\ formKind' = kind /\ formFields' = sent
             /\ formBody' = SubSeq(whole, 1, len) /\ formCut' = (len < Len(whole))
             /\ formPc' = IF kind = "url" THEN "url" ELSE "part"
    /\ UNCHANGED <<formBuf, formAt, formAllRead, formStore, formGot, formFile, formDone, formAbort>>

(***************************************************************************)
(* mg_read fills the buffer unless the body ends.                           *)
(***************************************************************************)
Available(buf) ==
    LET room == FormBuffer - Len(buf) IN IF Len(formBody) < room THEN Len(formBody) ELSE room

Filled(buf) == buf \o SubSeq(formBody, 1, Available(buf))
Consumed(buf) == SubSeq(formBody, Available(buf) + 1, Len(formBody))

\* The position of the delimiter at or after index from, or 0.
search_boundary(buf, from) ==
    LET hits == {i \in from..(Len(buf) - DelimiterLen + 1):
                    SubSeq(buf, i, i + DelimiterLen - 1) = Delimiter}
    IN IF hits = {} THEN 0 ELSE CHOOSE i \in hits: \A j \in hits: i <= j

\* The function returns: the number of fields, or -1.
Returns ==
    /\ formPc' = "returned"
    /\ UNCHANGED <<formKind, formFields, formCut>>

\* mg_fclose and remove_bad_file, if the file is open.
CloseAndRemove == formFile' = IF formFile = "open" THEN "removed" ELSE formFile

(***************************************************************************)
(* Multipart: a part begins.  The buffer must hold the whole part header.   *)
(***************************************************************************)
PartMalformed(buf) ==
    \/ Len(buf) < 3
    \/ SubSeq(buf, 1, 2) # <<"e", "f">>
    \/ buf[3] \notin {"H", "z"}

PartBegin ==
    /\ formPc = "part"
    /\ formBuf' = Filled(formBuf) /\ formBody' = Consumed(formBuf)
    /\ formAllRead' = (formAllRead \/ (Available(formBuf) = 0 /\ formBuf = <<>>))
    /\ IF PartMalformed(formBuf') \/ formBuf'[3] = "z"
       THEN Returns /\ UNCHANGED formAt
       ELSE /\ formPc' = "found" /\ formAt' = 4
            /\ UNCHANGED <<formKind, formFields, formCut>>
    /\ UNCHANGED <<formStore, formGot, formFile, formDone, formAbort>>

(***************************************************************************)
(* field_found decides what to do with the field; a file is opened for      *)
(* "store".  In a url-encoded body "abort" ends the parsing at once, in a   *)
(* multipart body after the field.                                          *)
(***************************************************************************)
FieldFound ==
    /\ formPc = "found"
    /\ \E storage \in {"skip", "get", "store", "abort"}:
        /\ formStore' = storage
        /\ formFile' \in (IF storage = "store" THEN {"open", "none"} ELSE {"none"})
        /\ formPc' = IF formKind = "multipart"
                     THEN IF search_boundary(formBuf, formAt) = 0 THEN "scan" ELSE "last"
                     ELSE IF storage = "abort" THEN "returned" ELSE "value"
    /\ formGot' = <<>>
    /\ UNCHANGED <<formKind, formFields, formCut, formBody, formBuf, formAt, formAllRead,
                   formDone, formAbort>>

(***************************************************************************)
(* Deliver a block of the field: to field_get, which may ask for the next   *)
(* field or to abort, or to the file, which may fail and is then removed.   *)
(***************************************************************************)
Deliver(block) ==
    \/ /\ formStore = "get"
       /\ formGot' = formGot \o block
       /\ \/ UNCHANGED formStore /\ formAbort' = IF formAbort = 0 THEN 0 ELSE 2
          \/ formStore' = "skip" /\ formAbort' = IF formAbort = 0 THEN 0 ELSE 2
          \/ UNCHANGED formStore /\ formAbort' = IF formAbort = 0 THEN 1 ELSE 2
       /\ UNCHANGED formFile
    \/ /\ formStore = "store" /\ formFile = "open"
       /\ \/ formGot' = formGot \o block /\ UNCHANGED formFile
          \/ formFile' = "removed" /\ UNCHANGED formGot
       /\ UNCHANGED <<formStore, formAbort>>
    \/ /\ formStore \in {"skip", "abort"} \/ (formStore = "store" /\ formFile # "open")
       /\ UNCHANGED <<formStore, formGot, formFile, formAbort>>

\* This call of Deliver was answered with "abort".
AskedToAbort == formStore = "get" /\ formStore' = "get" /\ formAbort = 0 /\ formAbort' = 1

(***************************************************************************)
(* While the delimiter is not in the buffer: pass on all but the last       *)
(* bl + 4 bytes, which may be the beginning of it, and read more.  With     *)
(* fewer bytes than that the function returns and leaves the file as it is. *)
(* An abort leaves this loop only; the final block follows.                 *)
(***************************************************************************)
PartShort ==
    /\ formPc = "scan" /\ Len(formBuf) - formAt + 1 < DelimiterLen
    /\ Returns
    /\ UNCHANGED <<formBody, formBuf, formAt, formAllRead, formStore, formGot, formFile,
                   formDone, formAbort>>

\* Mutant: two bytes fewer are kept back, as if the line end were not a part of the delimiter.
KeptTailShort(buf) == SubSeq(buf, Len(buf) - DelimiterLen + 3, Len(buf))

\* The bytes kept back.
KeptTail(buf) == SubSeq(buf, Len(buf) - DelimiterLen + 1, Len(buf))

PartBlock ==
    /\ formPc = "scan" /\ Len(formBuf) - formAt + 1 >= DelimiterLen
    /\ LET tail == KeptTail(formBuf)
           block == SubSeq(formBuf, formAt, Len(formBuf) - Len(tail))
           more == Filled(tail)
       IN
        \/ /\ Deliver(block) /\ AskedToAbort
           /\ formPc' = "last"
           /\ UNCHANGED <<formBuf, formAt, formBody, formAllRead, formKind, formFields, formCut>>
        \/ /\ Available(tail) > 0 \/ ~formAllRead
           /\ Deliver(block) /\ ~AskedToAbort
           /\ formBuf' = more /\ formAt' = 1 /\ formBody' = Consumed(tail)
           /\ formAllRead' = (formAllRead \/ (Available(tail) = 0 /\ search_boundary(more, 1) = 0))
           /\ formPc' = IF search_boundary(more, 1) = 0 THEN "scan" ELSE "last"
           /\ UNCHANGED <<formKind, formFields, formCut>>
        \/ /\ Available(tail) = 0 /\ formAllRead
           /\ CloseAndRemove /\ Returns
           /\ UNCHANGED <<formBody, formBuf, formAt, formAllRead, formStore, formGot, formAbort>>
    /\ UNCHANGED formDone

(***************************************************************************)
(* The last block of a part, up to the delimiter; after an abort there is   *)
(* no delimiter and the block is empty.  A file is closed and reported.     *)
(***************************************************************************)
\* field_stored may ask to stop; it was told of a complete file.
FieldComplete(got) ==
    formDone' = IF formStore = "get" \/ (formStore = "store" /\ formFile = "open")
                THEN <<got, Head(formFields)>> ELSE formDone

PartLast ==
    /\ formPc = "last"
    /\ LET next == search_boundary(formBuf, formAt)
           block == IF next = 0 THEN <<>> ELSE SubSeq(formBuf, formAt, next - 1)
       IN
        /\ Deliver(block)
        /\ IF next # 0 /\ formAbort' = 0 /\ formStore' = formStore /\ formFile' = formFile
           THEN FieldComplete(formGot \o block) ELSE UNCHANGED formDone
        /\ formBuf' = IF next = 0 THEN <<>> ELSE SubSeq(formBuf, next + 1, Len(formBuf))
        /\ \/ /\ formStore # "abort" /\ ~AskedToAbort /\ formPc' = "closing"
              /\ UNCHANGED <<formKind, formFields, formCut>>
           \/ (formStore = "abort" \/ (formStore = "get" /\ formAbort' > 0)) /\ Returns
    /\ UNCHANGED <<formAt, formBody, formAllRead>>

\* mg_fclose: the file is stored and reported, or removed if closing it fails.
\* field_store may end the parsing.
CloseFile ==
    /\ formPc = "closing"
    /\ \/ /\ formFile = "open" /\ formFile' \in {"stored", "removed"}
          /\ formPc' \in {IF formKind = "multipart" THEN "part" ELSE "url", "returned"}
       \/ /\ formFile # "open" /\ UNCHANGED formFile
          /\ formPc' = IF formKind = "multipart" THEN "part" ELSE "url"
    /\ formFields' = IF formFields = <<>> THEN <<>> ELSE Tail(formFields)
    /\ UNCHANGED <<formKind, formCut, formBody, formBuf, formAt, formAllRead, formStore,
                   formGot, formDone, formAbort>>

(***************************************************************************)
(* Url-encoded: look for the key.                                           *)
(***************************************************************************)
UrlKey ==
    /\ formPc = "url"
    /\ LET buf == Filled(formBuf)
           eq == {i \in DOMAIN buf: buf[i] = "="}
           ended == Available(formBuf) = 0 /\ formBuf = <<>>
       IN
        /\ formBuf' = buf /\ formBody' = Consumed(formBuf)
        /\ formAllRead' = (formAllRead \/ ended)
        /\ IF eq = {} THEN formPc' = "returned" /\ UNCHANGED formAt
           ELSE /\ formPc' = "found"
                /\ formAt' = (CHOOSE i \in eq: \A j \in eq: i <= j) + 1
    /\ UNCHANGED <<formKind, formFields, formCut, formStore, formGot, formFile, formDone, formAbort>>

\* The value ends in the buffer: deliver it and go on after the "&".
UrlValueEnds ==
    /\ formPc = "value"
    /\ LET amps == {i \in formAt..Len(formBuf): formBuf[i] = "&"}
           next == CHOOSE i \in amps: \A j \in amps: i <= j
           block == SubSeq(formBuf, formAt, next - 1)
       IN
        /\ amps # {}
        /\ Deliver(block)
        /\ IF formAbort' = 0 /\ formStore' = formStore /\ formFile' = formFile
           THEN FieldComplete(formGot \o block) ELSE UNCHANGED formDone
        /\ formBuf' = SubSeq(formBuf, next + 1, Len(formBuf))
        /\ formPc' = IF formAbort' > 0 THEN "returned" ELSE "closing"
    /\ UNCHANGED <<formKind, formFields, formCut, formAt, formBody, formAllRead>>

\* It does not: deliver what there is, empty the buffer and read on.  When nothing
\* more comes the value ended here.
UrlValueBlock ==
    /\ formPc = "value"
    /\ \A i \in formAt..Len(formBuf): formBuf[i] # "&"
    /\ LET block == SubSeq(formBuf, formAt, Len(formBuf)) IN
        /\ Deliver(block)
        /\ formBuf' = Filled(<<>>) /\ formBody' = Consumed(<<>>) /\ formAt' = 1
        /\ formAllRead' = (formAllRead \/ Available(<<>>) = 0)
        /\ IF Available(<<>>) = 0 /\ formAbort' = 0 /\ formStore' = formStore /\ formFile' = formFile
           THEN FieldComplete(formGot \o block) ELSE UNCHANGED formDone
        /\ formPc' = IF formAbort' > 0 THEN "returned"
                     ELSE IF Available(<<>>) = 0 THEN "closing" ELSE "value"
    /\ UNCHANGED <<formKind, formFields, formCut>>

FormReset ==
    /\ formPc = "returned" /\ formPc' = "idle"
    /\ formFields' = <<>> /\ formBody' = <<>> /\ formBuf' = <<>> /\ formAt' = 0
    /\ formAllRead' = FALSE /\ formStore' = "skip" /\ formGot' = <<>> /\ formFile' = "none"
    /\ formDone' = <<<<>>, <<>>>> /\ formAbort' = 0 /\ formCut' = FALSE
    /\ UNCHANGED formKind

FormNext ==
    \/ FormStart \/ PartBegin \/ FieldFound \/ PartShort \/ PartBlock \/ PartLast \/ CloseFile
    \/ UrlKey \/ UrlValueEnds \/ UrlValueBlock \/ FormReset

(***************************************************************************)
(* Properties.                                                              *)
(***************************************************************************)

\* A field that is completed was received exactly: the blocks that field_get or the
\* file got are the content that the client sent, wherever the ends of the buffer
\* fell and however much of the delimiter looked like content.  A url-encoded body
\* that breaks off cannot be told from one that ends.
FieldExact == formKind = "multipart" \/ ~formCut => formDone[1] = formDone[2]

\* "mg_handle_form_request ... will either store the file completely and call this
\* callback, or it will remove any partial content" (civetweb.h:1248-1251).  It
\* does not hold of a body that breaks off.
StoredOrRemoved == formPc = "returned" => formFile # "open"

\* field_get is not called again after it asked to abort
\* (docs/api/mg_form_data_handler.md:29).  It does not hold in the middle of a part.
AbortHonoured == formAbort < 2
=============================================================================
