---------------------------- MODULE MCConnection ----------------------------
(* Small instances of Connection for TLC: what a client may send.           *)
EXTENDS Connection

Tokens(m, kinds) ==
    [k \in 1..Len(kinds) |-> [kind |-> kinds[k][1], msg |-> m, len |-> kinds[k][2]]]

P(k) == <<k, 0>>

Get    == <<P("end")>>
Long   == <<P("head"), P("head"), P("head"), P("head"), P("end")>>
Bad    == <<P("head"), P("bad")>>
Post   == <<P("head"), <<"end", 2>>, P("data"), P("data")>>
Chunks == <<P("endc"), <<"size", 2>>, P("ext"), P("eol"), P("data"), P("data"), P("crlf"),
            <<"size", 1>>, P("eol"), P("data"), P("crlf"),
            P("size"), P("eol"), P("trailer"), P("final")>>
Empty  == <<P("endc"), P("size"), P("eol"), P("final")>>
NoCrlf == <<P("endc"), <<"size", 1>>, P("eol"), P("data"), P("junk"), P("size"), P("eol"), P("final")>>
NoEnd  == <<P("endc"), P("size"), P("eol"), P("junk"), P("final")>>
Hex    == <<P("endc"), <<"size", 1>>, <<"ext", 2>>, P("eol"), P("data"), P("crlf"),
            P("size"), P("eol"), P("final")>>

\* Two or three messages, one behind the other.
MCInputs == {Tokens(1, a) \o Tokens(2, b) \o Tokens(3, c) :
                a \in {Get, Post, Chunks, NoCrlf, NoEnd}, b \in {Get, Post, Empty, Bad},
                c \in {Get, Long}}

\* A chunk extension whose last character is a hex digit.
HexInputs == {Tokens(1, Hex) \o Tokens(2, Get)}
=============================================================================
