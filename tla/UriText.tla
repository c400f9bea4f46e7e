------------------------------ MODULE UriText ------------------------------
(***************************************************************************)
(* The pure functions that take URIs, form data and cookies apart: the     *)
(* removal of dot segments, percent and base64 coding, looking up form     *)
(* variables and cookies, absolute URIs.  A text is a sequence of bytes.   *)
(* The machine types every text over a small alphabet up to a length; the  *)
(* properties compare the functions on it with reference definitions and   *)
(* with each other.                                                        *)
(***************************************************************************)
EXTENDS Integers, Sequences

CONSTANTS Alphabets,      \* [kind -> bytes]: the alphabet of each kind of text
          MaxText,        \* [kind -> length]: bound on the texts of the kind
          ServerDomain,   \* authentication_domain
          ServerPort      \* the port of the connection

VARIABLES ukind, utext
uriVars == <<ukind, utext>>

Kinds == {"path", "form", "cookie", "bytes", "uri"}

ASSUME UriTextAssumption ==
    DOMAIN Alphabets = Kinds /\ DOMAIN MaxText = Kinds /\ \A k \in Kinds : MaxText[k] \in Nat

UriInit == ukind = "path" /\ utext = <<>>

\* The client extends the text, or starts another one.
TypeByte(c) ==
    /\ Len(utext) < MaxText[ukind]
    /\ utext' = Append(utext, c) /\ UNCHANGED ukind
NewText(k) == utext # <<>> /\ ukind' = k /\ utext' = <<>>

UriNext == (\E c \in Alphabets[ukind] : TypeByte(c)) \/ \E k \in Kinds : NewText(k)

-----------------------------------------------------------------------------
Drop(s, n) == SubSeq(s, n + 1, Len(s))
Starts(s, prefix) == Len(s) >= Len(prefix) /\ SubSeq(s, 1, Len(prefix)) = prefix

\* strchr: the first place of a byte at or behind i, 0 when there is none.
Find(s, c, i) ==
    LET at == {j \in i..Len(s) : s[j] = c}
    IN  IF at = {} THEN 0 ELSE CHOOSE j \in at : \A k \in at : j <= k

Dot == 46
Slash == 47
Backslash == 92

\* Step 2c: the last segment of the output, and its "/", is removed.
DropSegment(out) ==
    LET ends == {n \in 0..(Len(out) - 1) : n = 0 \/ out[n + 1] = Slash}
    IN  IF out = <<>> THEN out ELSE SubSeq(out, 1, CHOOSE n \in ends : \A k \in ends : k <= n)

\* The steps 2a to 2e of RFC 3986, section 5.2.4, as the first loop takes them.
RECURSIVE DotLoop(_, _)
DotLoop(in, out) ==
    LET next == Find(in, Slash, 2)
        segment == IF next = 0 THEN Len(in) ELSE next - 1
    IN  IF in = <<>> THEN out
        ELSE IF Starts(in, <<Dot, Dot, Slash>>) THEN DotLoop(Drop(in, 3), out)
        ELSE IF Starts(in, <<Dot, Slash>>) THEN DotLoop(Drop(in, 2), out)
        ELSE IF Starts(in, <<Slash, Dot, Slash>>) THEN DotLoop(Drop(in, 2), out)
        ELSE IF in = <<Slash, Dot>> THEN DotLoop(<<Slash>>, out)
        ELSE IF Starts(in, <<Slash, Dot, Dot, Slash>>) THEN DotLoop(Drop(in, 3), DropSegment(out))
        ELSE IF in = <<Slash, Dot, Dot>> THEN DotLoop(<<Slash>>, DropSegment(out))
        ELSE IF in \in {<<Dot>>, <<Dot, Dot>>} THEN out
        ELSE DotLoop(Drop(in, segment), out \o SubSeq(in, 1, segment))

\* Mutant: the slash in front of a segment of dots stays.
RECURSIVE SqueezeKeepsSlash(_, _)
SqueezeKeepsSlash(in, out) ==
    LET other == {i \in 1..Len(in) : in[i] # in[1]}
        run == IF other = {} THEN Len(in) ELSE (CHOOSE i \in other : \A j \in other : i <= j) - 1
        ahead == IF run < Len(in) THEN in[run + 1] ELSE 0
    IN  IF in = <<>> THEN out
        ELSE IF in[1] = Slash THEN SqueezeKeepsSlash(Drop(in, run), Append(out, Slash))
        ELSE IF in[1] # Dot THEN SqueezeKeepsSlash(Tail(in), Append(out, in[1]))
        ELSE SqueezeKeepsSlash(Drop(in, run),
                               IF ahead \in {0, Slash} THEN out ELSE out \o SubSeq(in, 1, run))

\* The second loop: dots in front of a "/" or at the end are removed, with the "/" in front
\* of them when nothing else was in the segment, and "//" becomes "/".
RECURSIVE Squeeze(_, _)
Squeeze(in, out) ==
    LET other == {i \in 1..Len(in) : in[i] # in[1]}
        run == IF other = {} THEN Len(in) ELSE (CHOOSE i \in other : \A j \in other : i <= j) - 1
        ahead == IF run < Len(in) THEN in[run + 1] ELSE 0
        bare == out # <<>> /\ out[Len(out)] = Slash
    IN  IF in = <<>> THEN out
        ELSE IF in[1] = Slash THEN Squeeze(Drop(in, run), Append(out, Slash))
        ELSE IF in[1] # Dot THEN Squeeze(Tail(in), Append(out, in[1]))
        ELSE Squeeze(Drop(in, run),
                     IF ahead = 0 THEN out
                     ELSE IF ahead # Slash THEN out \o SubSeq(in, 1, run)
                     ELSE IF bare THEN SubSeq(out, 1, Len(out) - 1) ELSE out)

\* remove_dot_segments
RemoveDotSegments(s) ==
    Squeeze(DotLoop([i \in DOMAIN s |-> IF s[i] = Backslash THEN Slash ELSE s[i]], <<>>), <<>>)

-----------------------------------------------------------------------------
(* Percent coding *)

Percent == 37
Digit(c) == c \in 48..57
IsHex(c) == Digit(c) \/ c \in 65..70 \/ c \in 97..102
HexValue(c) == IF Digit(c) THEN c - 48 ELSE IF c > 96 THEN c - 87 ELSE c - 55
HexDigit(n) == IF n < 10 THEN 48 + n ELSE 87 + n
Fail == <<-1>>

\* mg_url_decode: a text that holds a byte up to " " is refused.
RECURSIVE UrlDecode(_, _)
UrlDecode(s, form) ==
    LET coded == Len(s) >= 3 /\ s[1] = Percent /\ IsHex(s[2]) /\ IsHex(s[3])
        byte == IF coded THEN 16 * HexValue(s[2]) + HexValue(s[3])
                ELSE IF form /\ s[1] = 43 THEN 32 ELSE s[1]
        rest == UrlDecode(Drop(s, IF coded THEN 3 ELSE 1), form)
    IN  IF s = <<>> THEN <<>>
        ELSE IF (~coded /\ s[1] <= 32) \/ rest = Fail THEN Fail ELSE <<byte>> \o rest

\* ... into a buffer of n bytes, of which one is for the terminating zero.
UrlDecodeInto(s, n, form) ==
    LET t == UrlDecode(s, form) IN IF Len(t) < n THEN t ELSE Fail

\* Mutant: '+' is not escaped either.
NotEscapedPlus(c) == Digit(c) \/ c \in 65..90 \/ c \in 97..122 \/ c \in {46, 95, 45, 36, 43, 44}

\* isalnum and "._-$,;~()".
NotEscaped(c) == Digit(c) \/ c \in 65..90 \/ c \in 97..122 \/ c \in {46, 95, 45, 36, 44, 59, 126, 40, 41}

Encoded(c) == IF NotEscaped(c) THEN <<c>> ELSE <<Percent, HexDigit(c \div 16), HexDigit(c % 16)>>

\* mg_url_encode
RECURSIVE UrlEncode(_)
UrlEncode(s) == IF s = <<>> THEN <<>> ELSE Encoded(s[1]) \o UrlEncode(Tail(s))

\* mg_construct_local_link: in the encoded URI "%2f" becomes "/" again.
RECURSIVE KeepSlashes(_)
KeepSlashes(s) ==
    IF s = <<>> THEN <<>>
    ELSE IF Starts(s, <<Percent, 50, 102>>) THEN <<Slash>> \o KeepSlashes(Drop(s, 3))
    ELSE <<s[1]>> \o KeepSlashes(Tail(s))

-----------------------------------------------------------------------------
(* Base64; a digit is its value, 64 stands for '=' *)

\* mg_base64_encode: three bytes make four digits, two make three and one makes two.
RECURSIVE Base64Digits(_)
Base64Digits(s) ==
    LET a == s[1]
        b == IF Len(s) > 1 THEN s[2] ELSE 0
        c == IF Len(s) > 2 THEN s[3] ELSE 0
        digits == <<a \div 4, ((a % 4) * 16) + (b \div 16)>>
                  \o (IF Len(s) > 1 THEN <<((b % 16) * 4) + (c \div 64)>> ELSE <<>>)
                  \o (IF Len(s) > 2 THEN <<c % 64>> ELSE <<>>)
    IN  IF s = <<>> THEN <<>> ELSE digits \o Base64Digits(Drop(s, 3))

Base64Encode(s) ==
    LET digits == Base64Digits(s)
    IN  digits \o [i \in 1..((4 - (Len(digits) % 4)) % 4) |-> 64]

\* mg_base64_decode: '=' (or the end) for the third or the fourth digit ends the group.
RECURSIVE Base64Decode(_)
Base64Decode(t) ==
    LET bytes == <<((t[1] * 4) % 256) + t[2] \div 16>>
                 \o (IF t[3] = 64 THEN <<>> ELSE <<((t[2] * 16) % 256) + t[3] \div 4>>)
                 \o (IF 64 \in {t[3], t[4]} THEN <<>> ELSE <<((t[3] * 64) % 256) + t[4]>>)
    IN  IF t = <<>> THEN <<>> ELSE bytes \o Base64Decode(Drop(t, 4))

\* The length that the caller must provide, with the terminating zero.
Base64Length(n) == ((n + 2) \div 3) * 4 + 1

-----------------------------------------------------------------------------
(* Form variables and cookies *)

Amp == 38
Equals == 61
None == <<-2>>

\* Mutant: a name is found in the middle of another one.
VarStartsAnywhere(data, name) ==
    {p \in DOMAIN data : /\ p + Len(name) <= Len(data) /\ data[p + Len(name)] = Equals
                         /\ SubSeq(data, p, p + Len(name) - 1) = name}

\* The places where "name=" starts a variable.
VarStarts(data, name) ==
    {p \in DOMAIN data : /\ p = 1 \/ data[p - 1] = Amp
                         /\ p + Len(name) <= Len(data) /\ data[p + Len(name)] = Equals
                         /\ SubSeq(data, p, p + Len(name) - 1) = name}

\* mg_get_var2: the decoded value of the variable with the number, None when there is none.
GetVar(data, name, occurrence) ==
    LET at == {p \in VarStarts(data, name) :
                   {q \in VarStarts(data, name) : q < p} # {} <=> occurrence = 1}
        p == (CHOOSE q \in at : \A r \in at : q <= r) + Len(name) + 1
        next == Find(data, Amp, p)
    IN  IF at = {} THEN None
        ELSE UrlDecode(SubSeq(data, p, IF next = 0 THEN Len(data) ELSE next - 1), TRUE)

\* mg_split_form_urlencoded: names and values, None for a name without "="; leading blanks
\* of a name are skipped, and an empty rest is no field.
RECURSIVE SplitForm(_)
SplitForm(data) ==
    LET amp == Find(data, Amp, 1)
        field == IF amp = 0 THEN data ELSE SubSeq(data, 1, amp - 1)
        eq == Find(field, Equals, 1)
        pair == [name  |-> UrlDecode(IF eq = 0 THEN field ELSE SubSeq(field, 1, eq - 1), TRUE),
                 value |-> IF eq = 0 THEN None ELSE UrlDecode(Drop(field, eq), TRUE)]
    IN  IF data = <<>> THEN <<>>
        ELSE IF data[1] \in {9, 32} THEN SplitForm(Tail(data))
        ELSE IF amp = 0 THEN <<pair>> ELSE <<pair>> \o SplitForm(Drop(data, amp))

\* ... with no array it counts the fields: one more than there are "&".
CountFields(data) ==
    IF data = <<>> THEN 0 ELSE 1 + Len(SelectSeq(data, LAMBDA c : c = Amp))

Blank == 32
Semicolon == 59
Quote == 34

\* mg_get_cookie: the first "name=" at the start or behind a blank; the value ends in front
\* of a blank, without a ";" and without one pair of quotes around it.
GetCookie(header, name) ==
    LET at == {p \in DOMAIN header :
                  /\ p = 1 \/ header[p - 1] = Blank
                  /\ p + Len(name) <= Len(header) /\ header[p + Len(name)] = Equals
                  /\ SubSeq(header, p, p + Len(name) - 1) = name}
        p == (CHOOSE q \in at : \A r \in at : q <= r) + Len(name) + 1
        blank == Find(header, Blank, p)
        end == IF blank = 0 THEN Len(header) ELSE blank - 1
        last == IF header[end] = Semicolon THEN end - 1 ELSE end
    IN  IF at = {} THEN None
        ELSE IF last > p /\ header[p] = Quote /\ header[last] = Quote
        THEN SubSeq(header, p + 1, last - 1) ELSE SubSeq(header, p, last)

-----------------------------------------------------------------------------
(* Absolute URIs: the token 1 is "http://" and 2 is "https://" *)

Colon == 58
DefaultPort == <<80, 443>>

\* strtoul of the digits behind the colon, and where they end.
RECURSIVE Digits(_, _)
Digits(s, i) == IF i <= Len(s) /\ Digit(s[i]) THEN 1 + Digits(s, i + 1) ELSE 0
RECURSIVE Number(_)
Number(s) == IF s = <<>> THEN 0 ELSE 10 * Number(SubSeq(s, 1, Len(s) - 1)) + s[Len(s)] - 48
PortAt(uri, colon) == Number(SubSeq(uri, colon + 1, colon + Digits(uri, colon + 1)))
PortGood(uri, colon, hostend) ==
    /\ colon + Digits(uri, colon + 1) + 1 = hostend
    /\ PortAt(uri, colon) \in 1..65535

\* "%0d" or "%0a".
CodedLineEnd(s, i) ==
    i + 2 <= Len(s) /\ s[i] = Percent /\ s[i + 1] = 48 /\ s[i + 2] \in {65, 68, 97, 100}

\* get_uri_type
UriType(uri) ==
    LET hostend == Find(uri, Slash, 2)
        colon == Find(uri, Colon, 2)
    IN  IF uri = <<42>> THEN 1
        ELSE IF \E i \in DOMAIN uri : (uri[i] > 2 /\ uri[i] < 33) \/ CodedLineEnd(uri, i) THEN 0
        ELSE IF uri # <<>> /\ uri[1] = Slash THEN 2
        ELSE IF uri = <<>> \/ uri[1] > 2 \/ hostend = 0 THEN 0
        ELSE IF colon = 0 THEN 3
        ELSE IF PortGood(uri, colon, hostend) THEN 4 ELSE 0

\* Mutant: the dot in front of the server's domain is not looked at.
DomainMatchesSuffix(host) ==
    LET n == Len(host) - Len(ServerDomain) IN n >= 0 /\ Drop(host, n) = ServerDomain

\* The host is the server's domain or a subdomain of it.
DomainMatches(host) ==
    LET n == Len(host) - Len(ServerDomain)
    IN  host = ServerDomain \/ (n >= 2 /\ host[n] = Dot /\ Drop(host, n) = ServerDomain)

\* get_rel_url_at_current_server: where the local part starts, 0 for another server.
RelUrl(uri, check) ==
    LET hostend == Find(uri, Slash, 2)
        colon == Find(uri, Colon, 2)
        noPort == colon = 0 \/ colon > hostend
        port == IF noPort THEN DefaultPort[uri[1]] ELSE PortAt(uri, colon)
        host == SubSeq(uri, 2, (IF noPort THEN hostend ELSE colon) - 1)
    IN  IF /\ uri # <<>> /\ uri[1] \in {1, 2} /\ hostend # 0
           /\ noPort \/ PortGood(uri, colon, hostend)
           /\ port = ServerPort /\ (check => DomainMatches(host))
        THEN hostend ELSE 0

-----------------------------------------------------------------------------
(* Reference definitions *)

\* The segments behind each "/" of a path that starts with one.
RECURSIVE Segments(_)
Segments(s) ==
    LET next == Find(s, Slash, 2)
    IN  IF s = <<>> THEN <<>>
        ELSE IF next = 0 THEN <<Tail(s)>>
        ELSE <<SubSeq(s, 2, next - 1)>> \o Segments(Drop(s, next - 1))

\* The segments that are left when every ".." takes the one before it with it.
RECURSIVE Resolved(_, _)
Resolved(segments, left) ==
    IF segments = <<>> THEN left
    ELSE LET s == Head(segments)
             up == IF left = <<>> THEN left ELSE SubSeq(left, 1, Len(left) - 1)
             now == IF s = <<Dot>> THEN left ELSE IF s = <<Dot, Dot>> THEN up ELSE Append(left, s)
             end == Len(segments) = 1 /\ s \in {<<Dot>>, <<Dot, Dot>>}
         IN  Resolved(Tail(segments), IF end THEN Append(now, <<>>) ELSE now)

RECURSIVE NoTrailingDots(_)
NoTrailingDots(s) ==
    IF s # <<>> /\ s[Len(s)] = Dot THEN NoTrailingDots(SubSeq(s, 1, Len(s) - 1)) ELSE s

RECURSIVE Joined(_)
Joined(segments) ==
    IF segments = <<>> THEN <<>>
    ELSE LET s == NoTrailingDots(Head(segments))
         IN  (IF s = <<>> /\ Len(segments) > 1 THEN <<>> ELSE <<Slash>> \o s) \o Joined(Tail(segments))

\* A path that starts with "/" becomes its resolved segments, none of them empty (but the
\* last one) or ending with a dot, and removing dot segments again changes nothing
\* (remove_dot_segments: a URI cannot name what is above or beside the document root).
PathCanonical ==
    ukind = "path" /\ utext # <<>> /\ utext[1] = Slash =>
        LET s == [i \in DOMAIN utext |-> IF utext[i] = Backslash THEN Slash ELSE utext[i]]
            out == RemoveDotSegments(utext)
        IN  out = Joined(Resolved(Segments(s), <<>>)) /\ RemoveDotSegments(out) = out

\* Decoding takes back what encoding does: mg_url_decode of mg_url_encode, as a form or not
\* and into a buffer that is just large enough; of the path of a local link, in which no "/"
\* is coded; and mg_base64_decode of mg_base64_encode, whose length is the one asked for.
CodingInverse ==
    /\ ukind \in {"form", "path"} =>
        /\ \A form \in BOOLEAN :
              /\ UrlDecodeInto(UrlEncode(utext), Len(utext) + 1, form) = utext
              /\ UrlDecodeInto(UrlEncode(utext), Len(utext), form) = Fail
        /\ UrlDecode(KeepSlashes(UrlEncode(utext)), FALSE) = utext
    /\ ukind = "bytes" =>
        /\ Base64Decode(Base64Encode(utext)) = utext
        /\ Len(Base64Encode(utext)) + 1 = Base64Length(Len(utext))

\* The pairs of a cookie header, which "; " separates.
RECURSIVE CookiePairs(_)
CookiePairs(h) ==
    LET end == Find(h, Blank, 1)
    IN  IF end = 0 THEN <<h>>
        ELSE IF end > 1 /\ h[end - 1] = Semicolon
        THEN <<SubSeq(h, 1, end - 2)>> \o CookiePairs(Drop(h, end)) ELSE <<<<Semicolon>>>>

PairName(p) == SubSeq(p, 1, Find(p, Equals, 1) - 1)
PairValue(p) ==
    LET v == Drop(p, Find(p, Equals, 1))
    IN  IF Len(v) > 1 /\ v[1] = Quote /\ v[Len(v)] = Quote THEN SubSeq(v, 2, Len(v) - 1) ELSE v

\* Looking a name up finds what taking the text apart finds: mg_get_var2 and
\* mg_split_form_urlencoded agree on the value with a number under a name, and the count of
\* fields is never too small for the fields; mg_get_cookie gives the value of the first pair
\* with the name in a well-formed header.
LookupsAgree ==
    /\ ukind = "form" =>
        LET fields == SelectSeq(SplitForm(utext), LAMBDA f : f.name = <<97>> /\ f.value # None)
            raw == ~\E i \in DOMAIN utext : utext[i] \in {Percent, Blank}
        IN  /\ Len(SplitForm(utext)) <= CountFields(utext)
            /\ raw => \A k \in 0..1 :
                  GetVar(utext, <<97>>, k) = IF k < Len(fields) THEN fields[k + 1].value ELSE None
    /\ ukind = "cookie" =>
        LET pairs == CookiePairs(utext)
            found == SelectSeq(pairs, LAMBDA p : PairName(p) = <<97>>)
        IN  (\A i \in DOMAIN pairs : Find(pairs[i], Equals, 1) > 1 /\ Find(pairs[i], Semicolon, 1) = 0) =>
                GetCookie(utext, <<97>>) = IF found = <<>> THEN None ELSE PairValue(found[1])

\* An absolute URI that get_uri_type accepts for this server's port is found by
\* get_rel_url_at_current_server, and with the domain check exactly when its host is the
\* server's domain or below it; the local part starts at the first "/".
AbsoluteUri ==
    ukind = "uri" /\ UriType(utext) \in {3, 4} =>
        LET end == Find(utext, Slash, 2)
            colon == Find(utext, Colon, 2)
            host == SubSeq(utext, 2, (IF colon = 0 THEN end ELSE colon) - 1)
            ours == ServerPort = IF colon = 0 THEN DefaultPort[utext[1]] ELSE PortAt(utext, colon)
            below == \E n \in 1..Len(host) : SubSeq(host, n, Len(host)) = <<Dot>> \o ServerDomain /\ n > 1
        IN  /\ RelUrl(utext, FALSE) = IF ours THEN end ELSE 0
            /\ RelUrl(utext, TRUE) = IF ours /\ (host = ServerDomain \/ below) THEN end ELSE 0

\* "return 3 for absolute uri without port" (the comment of get_uri_type): a URI that
\* get_rel_url_at_current_server can use is valid.  One with a ":" in its path is not, since
\* the search for the port does not stop at the end of the host.
LocalUriValid == ukind = "uri" /\ RelUrl(utext, FALSE) # 0 => UriType(utext) \in {3, 4}

\* The functions on URIs and their parts: remove_dot_segments, the encodings and their
\* inverses, mg_get_var and mg_get_cookie, and the check of absolute URIs.
UriFunctions == PathCanonical /\ CodingInverse /\ LookupsAgree /\ AbsoluteUri
=============================================================================
