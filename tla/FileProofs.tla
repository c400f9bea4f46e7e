----------------------------- MODULE FileProofs -----------------------------
(***************************************************************************)
(* Proofs about files: who gets them, and that what is sent of them is     *)
(* exact.  Access by the records of the password file, for any users and   *)
(* files; a file or a range of it, byte for byte; SSI files, which include *)
(* each other and share no buffer; and Lua server pages in both syntaxes,  *)
(* for any page and any size of the blocks in which it is read.            *)
(***************************************************************************)
EXTENDS Components, Auth, SequenceTheorems, WellFoundedInduction, TLAPS

-----------------------------------------------------------------------------
(* Numbers and sequences *)

\* A set of natural numbers that is not empty has a least element: where the proofs below need
\* induction, they look at the least number for which a statement does not hold.
LEMMA Least == ASSUME NEW T, T \subseteq Nat, T # {} PROVE \E m \in T : \A n \in T : m <= n
<1> DEFINE R == OpToRel(<, Nat)
<1>1. IsWellFoundedOn(R, Nat)
  BY NatLessThanWellFounded
<1>2. \A x, y \in Nat : y < x => <<y, x>> \in R
  BY DEF OpToRel
<1> HIDE DEF R
<1>3. PICK m \in T : \A y \in T : ~(<<y, m>> \in R)
  BY <1>1, WFMin
<1>4. ASSUME NEW n \in T PROVE m <= n
  <2>1. m \in Nat /\ n \in Nat
    OBVIOUS
  <2>2. ~(n < m)
    BY <2>1, <1>2, <1>3
  <2> QED BY <2>1, <2>2
<1> QED BY <1>4

\* F has the concatenation of the first n pieces.
Joins(F, g, n) == (n > 0 => F[1] = g[1]) /\ \A i \in 2..n : F[i] = F[i - 1] \o g[i]

\* F is such a function for the first n of the sequences g.
Flattens(F, g, S, n) == F \in [1..n -> Seq(S)] /\ Joins(F, g, n)

\* There is such a function.
LEMMA FlattensExist ==
    ASSUME NEW S, NEW g \in Seq(Seq(S)) PROVE \E F : Flattens(F, g, S, Len(g))
<1> DEFINE T == {n \in 0..Len(g) : ~\E F : Flattens(F, g, S, n)}
<1>n. Len(g) \in Nat
  OBVIOUS
<1>1. SUFFICES ASSUME T # {} PROVE FALSE
  BY <1>n
<1>2. PICK m \in T : \A n \in T : m <= n
  <2>1. T \subseteq Nat
    OBVIOUS
  <2> HIDE DEF T
  <2> QED BY <2>1, <1>1, Least
<1>3. m # 0
  <2>1. Flattens([i \in 1..0 |-> <<>>], g, S, 0)
    BY DEF Flattens, Joins
  <2> QED BY <2>1, <1>2
<1>4. m - 1 \in 0..Len(g) /\ m \in 1..Len(g) /\ m - 1 \in Nat
  BY <1>3, <1>n
<1>5. PICK F : Flattens(F, g, S, m - 1)
  <2>1. m - 1 \notin T
    <3> HIDE DEF T
    <3> QED BY <1>2, <1>4
  <2> QED BY <2>1, <1>4
<1>6. g[m] \in Seq(S)
  BY <1>4
<1> DEFINE x == IF m = 1 THEN g[1] ELSE F[m - 1] \o g[m]
           G == [i \in 1..m |-> IF i = m THEN x ELSE F[i]]
<1>7. x \in Seq(S)
  <2>1. CASE m = 1
    BY <2>1, <1>6
  <2>2. CASE m # 1
    <3>1. m - 1 \in 1..(m - 1)
      BY <2>2, <1>4
    <3>2. F[m - 1] \in Seq(S)
      BY <3>1, <1>5 DEF Flattens, Joins
    <3> QED BY <2>2, <3>2, <1>6, ConcatProperties
  <2> QED BY <2>1, <2>2
<1> HIDE DEF x
<1>8. G \in [1..m -> Seq(S)]
  BY <1>4, <1>5, <1>7 DEF Flattens, Joins
<1>9. G[1] = g[1]
  <2>1. CASE m = 1
    BY <2>1 DEF x
  <2>2. CASE m # 1
    BY <2>2, <1>4, <1>5 DEF Flattens, Joins
  <2> QED BY <2>1, <2>2
<1>10. ASSUME NEW i \in 2..m PROVE G[i] = G[i - 1] \o g[i]
  <2>1. i - 1 \in 1..m /\ i - 1 # m /\ i \in 1..m /\ m # 1
    BY <1>4
  <2>2. CASE i = m
    BY <2>1, <2>2 DEF x
  <2>3. CASE i # m
    <3>1. i \in 2..(m - 1)
      BY <2>3, <1>4
    <3>2. F[i] = F[i - 1] \o g[i]
      BY <3>1, <1>5 DEF Flattens, Joins
    <3> QED BY <2>1, <2>3, <3>2
  <2> QED BY <2>2, <2>3
<1> HIDE DEF G
<1>11. Flattens(G, g, S, m)
  BY <1>4, <1>8, <1>9, <1>10 DEF Flattens, Joins
<1> QED BY <1>2, <1>11

\* There is only one.
LEMMA FlattensUnique ==
    ASSUME NEW g, NEW n \in Nat, NEW F, NEW H, Joins(F, g, n), Joins(H, g, n)
    PROVE  \A i \in 1..n : F[i] = H[i]
<1> DEFINE T == {i \in 1..n : F[i] # H[i]}
<1>1. SUFFICES ASSUME T # {} PROVE FALSE
  OBVIOUS
<1>2. PICK m \in T : \A i \in T : m <= i
  <2>1. T \subseteq Nat
    OBVIOUS
  <2> HIDE DEF T
  <2> QED BY <2>1, <1>1, Least
<1>3. m # 1
  BY DEF Flattens, Joins
<1>4. m - 1 \in 1..n /\ m \in 2..n
  BY <1>3
<1>5. m - 1 \notin T
  <2> HIDE DEF T
  <2> QED BY <1>2, <1>4
<1> QED BY <1>4, <1>5 DEF Flattens, Joins

\* FlattenSeq, which is defined by recursion, is its last value.
LEMMA FlattenIs ==
    ASSUME NEW S, NEW g \in Seq(Seq(S)), Len(g) > 0, NEW F, Flattens(F, g, S, Len(g))
    PROVE  FlattenSeq(g) = F[Len(g)]
<1> DEFINE D(h) == [i \in 1..Len(g) |-> IF i = 1 THEN g[i] ELSE h[i - 1] \o g[i]]
<1>n. Len(g) \in Nat
  OBVIOUS
<1>1. F = D(F)
  <2>1. \A i \in 1..Len(g) : i = 1 \/ i \in 2..Len(g)
    BY <1>n
  <2> QED BY <2>1 DEF Flattens, Joins
<1>2. PICK h : h = D(h) /\ FlattenSeq(g) = h[Len(g)]
  <2>1. FlattenSeq(g) = (CHOOSE f : f = D(f))[Len(g)]
    BY DEF FlattenSeq
  <2> HIDE DEF D
  <2> QED BY <1>1, <2>1
<1>3. h[1] = g[1] /\ \A i \in 2..Len(g) : h[i] = h[i - 1] \o g[i]
  <2>1. \A f : \A i \in 1..Len(g) : D(f)[i] = IF i = 1 THEN g[i] ELSE f[i - 1] \o g[i]
    OBVIOUS
  <2>2. \A i \in 1..Len(g) : h[i] = IF i = 1 THEN g[i] ELSE h[i - 1] \o g[i]
    <3> HIDE DEF D
    <3> QED BY <1>2, <2>1
  <2>3. 1 \in 1..Len(g) /\ \A i \in 2..Len(g) : i \in 1..Len(g) /\ i # 1
    BY <1>n
  <2> HIDE DEF D
  <2> QED BY <2>2, <2>3
<1> HIDE DEF D
<1>4. \A i \in 1..Len(g) : F[i] = h[i]
  <2>1. Joins(h, g, Len(g))
    BY <1>3 DEF Joins
  <2>2. Joins(F, g, Len(g))
    BY DEF Flattens
  <2> QED BY <2>1, <2>2, <1>n, FlattensUnique
<1> QED BY <1>2, <1>4, <1>n

\* One sequence more is put at the end.
LEMMA FlattenOfAppend ==
    ASSUME NEW S, NEW g \in Seq(Seq(S)), NEW x \in Seq(S)
    PROVE  FlattenSeq(g) \in Seq(S) /\ FlattenSeq(Append(g, x)) = FlattenSeq(g) \o x
<1> DEFINE t == Append(g, x)
           l == Len(g)
<1>1. t \in Seq(Seq(S)) /\ Len(t) = l + 1 /\ t[l + 1] = x /\ \A i \in 1..l : t[i] = g[i]
  BY AppendProperties
<1>n. l \in Nat
  OBVIOUS
<1> HIDE DEF t
<1>2. PICK F : Flattens(F, t, S, l + 1)
  BY <1>1, FlattensExist
<1>3. FlattenSeq(t) = F[l + 1]
  BY <1>1, <1>2, <1>n, FlattenIs
<1>4. CASE l = 0
  <2>1. g = <<>> /\ FlattenSeq(g) = <<>>
    BY <1>4 DEF FlattenSeq
  <2>2. F[l + 1] = x
    BY <1>1, <1>2, <1>4 DEF Flattens, Joins
  <2>3. <<>> \o x = x /\ <<>> \in Seq(S)
    OBVIOUS
  <2>4. FlattenSeq(t) = x
    BY <1>3, <2>2
  <2> QED BY <2>1, <2>3, <2>4 DEF t
<1>5. CASE l # 0
  <2> DEFINE G == [i \in 1..l |-> F[i]]
  <2>1. Flattens(G, g, S, l)
    <3>1. G \in [1..l -> Seq(S)]
      BY <1>2, <1>n DEF Flattens, Joins
    <3>2. G[1] = g[1]
      BY <1>1, <1>2, <1>n, <1>5 DEF Flattens, Joins
    <3>3. ASSUME NEW i \in 2..l PROVE G[i] = G[i - 1] \o g[i]
      <4>1. i \in 1..l /\ i - 1 \in 1..l /\ i \in 2..(l + 1)
        BY <1>n
      <4> QED BY <4>1, <1>1, <1>2 DEF Flattens, Joins
    <3> HIDE DEF G
    <3> QED BY <3>1, <3>2, <3>3 DEF Flattens, Joins
  <2>2. G[l] = F[l] /\ G[l] \in Seq(S)
    BY <1>2, <1>5, <1>n DEF Flattens, Joins
  <2> HIDE DEF G
  <2>3. FlattenSeq(g) = F[l]
    <3>1. Len(g) > 0
      BY <1>5, <1>n
    <3>2. FlattenSeq(g) = G[Len(g)]
      BY <2>1, <3>1, FlattenIs
    <3> QED BY <2>2, <3>2
  <2>4. F[l + 1] = F[l] \o x
    <3>1. l + 1 \in 2..(l + 1) /\ (l + 1) - 1 = l
      BY <1>5, <1>n
    <3>2. F[l + 1] = F[(l + 1) - 1] \o t[l + 1]
      BY <3>1, <1>2 DEF Flattens, Joins
    <3> QED BY <3>1, <3>2, <1>1
  <2> QED BY <1>3, <2>2, <2>3, <2>4 DEF t
<1> QED BY <1>4, <1>5

\* A sequence t that is another one with x behind it.
LEMMA AppendedIs ==
    ASSUME NEW S, NEW s \in Seq(S), NEW x \in S, NEW t \in Seq(S), Len(t) = Len(s) + 1,
           t[Len(s) + 1] = x, \A i \in 1..Len(s) : t[i] = s[i]
    PROVE  Append(s, x) = t
<1>1. /\ Append(s, x) \in Seq(S) /\ Len(Append(s, x)) = Len(s) + 1 /\ Len(s) \in Nat
      /\ Append(s, x)[Len(s) + 1] = x /\ \A i \in 1..Len(s) : Append(s, x)[i] = s[i]
  OBVIOUS
<1>2. \A i \in 1..Len(Append(s, x)) : i \in 1..Len(s) \/ i = Len(s) + 1
  BY <1>1
<1>3. \A i \in 1..Len(Append(s, x)) : Append(s, x)[i] = t[i]
  BY <1>1, <1>2
<1>4. Len(Append(s, x)) = Len(t)
  BY <1>1
<1> QED BY <1>1, <1>3, <1>4, SeqEqual

-----------------------------------------------------------------------------
(* Auth: what an edit writes, and whom a request finds *)

\* The lines a password file can have.
Line == Records \cup {Comment, Include}

\* The entries that a line r adds.
Own(r, u) == IF IsRecordOf(r, u) THEN <<r>> ELSE <<>>

\* One line more adds its entry, if it is a record of the user.
LEMMA RecordsOfAppend ==
    ASSUME NEW s \in Seq(Line), NEW r \in Line, NEW u
    PROVE  /\ RecordsOf(s, u) \in Seq(Line)
           /\ RecordsOf(Append(s, r), u) = RecordsOf(s, u) \o Own(r, u)
<1> DEFINE t == Append(s, r)
           l == Len(s)
           g == [n \in 1..l |-> Own(s[n], u)]
           h == [n \in 1..(l + 1) |-> Own(t[n], u)]
<1>1. t \in Seq(Line) /\ Len(t) = l + 1 /\ t[l + 1] = r /\ \A i \in 1..l : t[i] = s[i]
  BY AppendProperties
<1>n. l \in Nat
  OBVIOUS
<1>o. \A x \in Line : Own(x, u) \in Seq(Line)
  BY DEF Own
<1>2. RecordsOf(s, u) = FlattenSeq(g) /\ RecordsOf(t, u) = FlattenSeq(h)
  <2>1. DOMAIN s = 1..l /\ DOMAIN t = 1..(l + 1)
    BY <1>1
  <2> QED BY <2>1 DEF RecordsOf, Own
<1> HIDE DEF t
<1>3. g \in Seq(Seq(Line)) /\ h \in Seq(Seq(Line)) /\ Len(g) = l /\ Len(h) = l + 1
  <2>1. \A i \in 1..l : s[i] \in Line
    OBVIOUS
  <2>2. \A i \in 1..(l + 1) : t[i] \in Line
    BY <1>1
  <2>3. g \in [1..l -> Seq(Line)] /\ h \in [1..(l + 1) -> Seq(Line)]
    BY <2>1, <2>2, <1>o
  <2> HIDE DEF g, h
  <2> QED BY <2>3, <1>n
<1>4. h[l + 1] = Own(r, u) /\ \A i \in 1..l : h[i] = g[i]
  <2>1. l + 1 \in 1..(l + 1) /\ \A i \in 1..l : i \in 1..(l + 1)
    BY <1>n
  <2> QED BY <2>1, <1>1
<1> HIDE DEF g, h
<1>5. Append(g, Own(r, u)) = h
  BY <1>3, <1>4, <1>o, AppendedIs
<1> QED BY <1>2, <1>3, <1>5, <1>o, FlattenOfAppend DEF t

\* The record that an edit writes.
NewRecord(u, h) == [kind |-> "record", user |-> u, ha1 |-> h]

\* What the loop copies of a line r, when a record of the user was found before or not.
Copied(r, found, u, h) ==
    IF r.kind # "record" THEN <<>> ELSE IF r.user # u THEN <<r>>
    ELSE IF h = "none" \/ found = TRUE THEN <<>> ELSE <<NewRecord(u, h)>>

\* Only records have a user and a hash; what an edit makes of one (fprintf in
\* mg_modify_passwords_file_ha1).
LEMMA LineIs ==
    ASSUME NEW r \in Line
    PROVE  /\ r.kind = "record" => r \in Records
           /\ \A u, h : IsRecordOf(r, u) => [r EXCEPT !.ha1 = h] = NewRecord(u, h)
<1>1. Comment.kind # "record" /\ Include.kind # "record"
  BY DEF Comment, Include
<1>2. r.kind = "record" => r \in Records
  BY <1>1 DEF Line
<1>3. ASSUME NEW u, NEW h, IsRecordOf(r, u) PROVE [r EXCEPT !.ha1 = h] = NewRecord(u, h)
  BY <1>2, <1>3 DEF IsRecordOf, NewRecord, Records
<1> QED BY <1>2, <1>3

\* What is copied of a line are lines.
LEMMA CopiedIsLines ==
    ASSUME NEW r \in Line, NEW found, NEW u \in AuthUsers, NEW h \in Hashes \cup {"none"}
    PROVE  Copied(r, found, u, h) \in Seq(Line)
<1>1. h # "none" => NewRecord(u, h) \in Line
  BY DEF NewRecord, Line, Records
<1> QED BY <1>1 DEF Copied

\* One line more in the file: what is copied of it depends on whether a record of the user
\* was before it (mg_modify_passwords_file_ha1).
LEMMA RewrittenOfAppend ==
    ASSUME NEW s \in Seq(Line), NEW r \in Line, NEW u \in AuthUsers, NEW h \in Hashes \cup {"none"}
    PROVE  /\ Rewritten(s, u, h) \in Seq(Line)
           /\ Rewritten(Append(s, r), u, h) = Rewritten(s, u, h) \o Copied(r, HasRecord(s, u), u, h)
<1> DEFINE t == Append(s, r)
           l == Len(s)
           found(n) == HasRecord(SubSeq(s, 1, n - 1), u)
           g == [n \in 1..l |-> Copied(s[n], found(n), u, h)]
           k == [n \in 1..(l + 1) |-> Copied(t[n], found(n), u, h)]
<1>1. t \in Seq(Line) /\ Len(t) = l + 1 /\ t[l + 1] = r /\ \A i \in 1..l : t[i] = s[i]
  BY AppendProperties
<1>n. l \in Nat
  OBVIOUS
<1>f. ASSUME NEW n \in 1..(l + 1) PROVE SubSeq(t, 1, n - 1) = SubSeq(s, 1, n - 1)
  <2>1. n - 1 \in 0..l
    BY <1>n
  <2> HIDE DEF t
  <2>2. /\ SubSeq(t, 1, n - 1) \in Seq(Line) /\ Len(SubSeq(t, 1, n - 1)) = n - 1
        /\ \A j \in 1..(n - 1) : SubSeq(t, 1, n - 1)[j] = t[j]
    BY <1>1, <2>1, SubSeqProperties
  <2>3. /\ SubSeq(s, 1, n - 1) \in Seq(Line) /\ Len(SubSeq(s, 1, n - 1)) = n - 1
        /\ \A j \in 1..(n - 1) : SubSeq(s, 1, n - 1)[j] = s[j]
    BY <2>1, SubSeqProperties
  <2> QED BY <2>1, <2>2, <2>3, <1>1, SeqEqual
<1>c. ASSUME NEW q, NEW n, q[n] \in Line
      PROVE  CopiedLine(q, n, u, h) = Copied(q[n], HasRecord(SubSeq(q, 1, n - 1), u), u, h)
  <2>1. q[n].kind = "record" /\ q[n].user = u => [q[n] EXCEPT !.ha1 = h] = NewRecord(u, h)
    BY <1>c, LineIs DEF IsRecordOf
  <2>2. HasRecord(SubSeq(q, 1, n - 1), u) \in BOOLEAN
    BY DEF HasRecord
  <2> QED BY <2>1, <2>2 DEF CopiedLine, Copied
<1>2. Rewritten(s, u, h) = FlattenSeq(g) /\ Rewritten(t, u, h) = FlattenSeq(k)
  <2>1. DOMAIN s = 1..l /\ DOMAIN t = 1..(l + 1)
    BY <1>1
  <2>2. \A n \in 1..l : CopiedLine(s, n, u, h) = Copied(s[n], found(n), u, h)
    BY <1>c
  <2>3. \A n \in 1..(l + 1) : CopiedLine(t, n, u, h) = Copied(t[n], found(n), u, h)
    <3> TAKE n \in 1..(l + 1)
    <3>1. t[n] \in Line
      <4> HIDE DEF t
      <4> QED BY <1>1
    <3> HIDE DEF t
    <3> QED BY <3>1, <1>f, <1>c
  <2>4. [n \in DOMAIN s |-> CopiedLine(s, n, u, h)] = g
    BY <2>1, <2>2
  <2>5. [n \in DOMAIN t |-> CopiedLine(t, n, u, h)] = k
    <3> HIDE DEF t
    <3> QED BY <2>1, <2>3
  <2> HIDE DEF t, g, k
  <2> QED BY <2>4, <2>5 DEF Rewritten
<1> HIDE DEF t
<1>3. g \in Seq(Seq(Line)) /\ k \in Seq(Seq(Line)) /\ Len(g) = l /\ Len(k) = l + 1
  <2>1. \A i \in 1..l : s[i] \in Line
    OBVIOUS
  <2>2. \A i \in 1..(l + 1) : t[i] \in Line
    BY <1>1
  <2>3. g \in [1..l -> Seq(Line)] /\ k \in [1..(l + 1) -> Seq(Line)]
    BY <2>1, <2>2, CopiedIsLines
  <2> HIDE DEF g, k
  <2> QED BY <2>3, <1>n
<1>4. k[l + 1] = Copied(r, HasRecord(s, u), u, h) /\ \A i \in 1..l : k[i] = g[i]
  <2>1. l + 1 \in 1..(l + 1) /\ (l + 1) - 1 = l /\ \A i \in 1..l : i \in 1..(l + 1)
    BY <1>n
  <2>2. SubSeq(s, 1, l) = s
    BY SubSeqFull
  <2>3. k[l + 1] = Copied(t[l + 1], HasRecord(SubSeq(s, 1, (l + 1) - 1), u), u, h)
    BY <2>1
  <2>4. k[l + 1] = Copied(r, HasRecord(s, u), u, h)
    <3> HIDE DEF k, l
    <3> QED BY <2>1, <2>2, <2>3, <1>1 DEF l
  <2> QED BY <2>1, <2>4, <1>1
<1> HIDE DEF g, k
<1>5. Append(g, Copied(r, HasRecord(s, u), u, h)) = k
  BY <1>3, <1>4, CopiedIsLines, AppendedIs
<1> QED BY <1>2, <1>3, <1>5, CopiedIsLines, FlattenOfAppend DEF t

\* For every user the records that are left: the user's own is the new one, or none, and the
\* others are as they were.
RecordsCopied(s, u, h) ==
    \A v : RecordsOf(Rewritten(s, u, h), v) =
             IF v # u THEN RecordsOf(s, v)
             ELSE IF h = "none" \/ ~HasRecord(s, u) THEN <<>> ELSE <<NewRecord(u, h)>>

\* That stays so with one line more.
LEMMA CopiesOneMore ==
    ASSUME NEW s \in Seq(Line), NEW r \in Line, NEW u \in AuthUsers, NEW h \in Hashes \cup {"none"},
           RecordsCopied(s, u, h)
    PROVE  RecordsCopied(Append(s, r), u, h)
<1> DEFINE t == Rewritten(s, u, h)
           c == Copied(r, HasRecord(s, u), u, h)
           q == Append(s, r)
<1>1. t \in Seq(Line) /\ Rewritten(q, u, h) = t \o c
  BY RewrittenOfAppend
<1>2. HasRecord(q, u) <=> HasRecord(s, u) \/ IsRecordOf(r, u)
  <2>1. Len(q) = Len(s) + 1 /\ q[Len(s) + 1] = r /\ (\A i \in 1..Len(s) : q[i] = s[i]) /\ Len(s) \in Nat
        /\ DOMAIN q = 1..(Len(s) + 1) /\ DOMAIN s = 1..Len(s)
    BY AppendProperties
  <2> HIDE DEF q
  <2>2. \A i \in DOMAIN q : i \in DOMAIN s \/ i = Len(s) + 1
    BY <2>1
  <2>3. \A i \in DOMAIN s : i \in DOMAIN q /\ q[i] = s[i]
    BY <2>1
  <2>4. Len(s) + 1 \in DOMAIN q
    BY <2>1
  <2> QED BY <2>1, <2>2, <2>3, <2>4 DEF HasRecord
<1>3. ASSUME NEW v
      PROVE  /\ RecordsOf(s, v) \in Seq(Line) /\ RecordsOf(t, v) \in Seq(Line)
             /\ RecordsOf(q, v) = RecordsOf(s, v) \o Own(r, v)
  BY <1>1, RecordsOfAppend
<1>4. ASSUME NEW v, NEW y \in Line PROVE RecordsOf(t \o <<y>>, v) = RecordsOf(t, v) \o Own(y, v)
  <2>1. t \o <<y>> = Append(t, y)
    <3> HIDE DEF t
    <3> QED BY <1>1
  <2> HIDE DEF t
  <2> QED BY <1>1, <2>1, RecordsOfAppend
<1>5. t \o <<>> = t /\ \A x \in Seq(Line) : x \o <<>> = x /\ <<>> \o x = x
  <2> HIDE DEF t
  <2> QED BY <1>1
<1>6. h # "none" => NewRecord(u, h) \in Line /\ \A v : IsRecordOf(NewRecord(u, h), v) <=> v = u
  BY DEF NewRecord, Line, Records, IsRecordOf
<1>7. SUFFICES ASSUME NEW v
               PROVE RecordsOf(t \o c, v) =
                       IF v # u THEN RecordsOf(q, v)
                       ELSE IF h = "none" \/ ~HasRecord(q, u) THEN <<>> ELSE <<NewRecord(u, h)>>
  BY <1>1 DEF RecordsCopied
<1>8. RecordsOf(t, v) = IF v # u THEN RecordsOf(s, v)
                        ELSE IF h = "none" \/ ~HasRecord(s, u) THEN <<>> ELSE <<NewRecord(u, h)>>
  BY DEF RecordsCopied
<1> HIDE DEF t, q
<1>9. CASE r.kind # "record"
  <2>1. c = <<>> /\ Own(r, v) = <<>> /\ ~IsRecordOf(r, u)
    BY <1>9 DEF Copied, Own, IsRecordOf
  <2> QED BY <2>1, <1>2, <1>3, <1>5, <1>8
<1>10. CASE r.kind = "record" /\ r.user # u
  <2>1. c = <<r>> /\ ~IsRecordOf(r, u) /\ Own(r, u) = <<>>
    BY <1>10 DEF Copied, Own, IsRecordOf
  <2>2. RecordsOf(t \o c, v) = RecordsOf(t, v) \o Own(r, v)
    BY <2>1, <1>4
  <2>3. CASE v = u
    <3>1. RecordsOf(t \o c, v) = RecordsOf(t, v)
      BY <2>1, <2>2, <2>3, <1>3, <1>5
    <3> QED BY <2>1, <2>3, <3>1, <1>2, <1>8
  <2>4. CASE v # u
    BY <2>2, <2>4, <1>3, <1>8
  <2> QED BY <2>3, <2>4
<1>11. CASE IsRecordOf(r, u) /\ (h = "none" \/ HasRecord(s, u))
  <2>1. c = <<>>
    <3>1. HasRecord(s, u) => (HasRecord(s, u) = TRUE)
      BY DEF HasRecord
    <3> QED BY <1>11, <3>1 DEF Copied, IsRecordOf
  <2>2. v # u => Own(r, v) = <<>>
    BY <1>11 DEF Own, IsRecordOf
  <2>3. RecordsOf(t \o c, v) = RecordsOf(t, v)
    BY <2>1, <1>5
  <2> QED BY <2>2, <2>3, <1>2, <1>3, <1>5, <1>8, <1>11
<1>12. CASE IsRecordOf(r, u) /\ h # "none" /\ ~HasRecord(s, u)
  <2>1. c = <<NewRecord(u, h)>>
    BY <1>12 DEF Copied, IsRecordOf
  <2>2. v # u => Own(r, v) = <<>>
    BY <1>12 DEF Own, IsRecordOf
  <2>3. RecordsOf(t \o c, v) = RecordsOf(t, v) \o Own(NewRecord(u, h), v)
    BY <2>1, <1>4, <1>6, <1>12
  <2>4. Own(NewRecord(u, h), v) = IF v = u THEN <<NewRecord(u, h)>> ELSE <<>>
    BY <1>6, <1>12 DEF Own
  <2>5. CASE v = u
    <3>1. RecordsOf(t, v) = <<>>
      BY <2>5, <1>8, <1>12
    <3>2. <<NewRecord(u, h)>> \in Seq(Line)
      BY <1>6, <1>12
    <3>3. RecordsOf(t \o c, v) = <<NewRecord(u, h)>>
      BY <2>3, <2>4, <2>5, <3>1, <3>2, <1>5
    <3> QED BY <2>5, <3>3, <1>2, <1>12
  <2>6. CASE v # u
    BY <2>2, <2>3, <2>4, <2>6, <1>3, <1>5, <1>8
  <2> QED BY <2>5, <2>6
<1> QED BY <1>9, <1>10, <1>11, <1>12 DEF IsRecordOf

\* So it is for every file.
LEMMA FileIsCopied ==
    ASSUME NEW f \in Seq(Line), NEW u \in AuthUsers, NEW h \in Hashes \cup {"none"}
    PROVE  RecordsCopied(f, u, h)
<1> DEFINE T == {n \in 0..Len(f) : ~RecordsCopied(SubSeq(f, 1, n), u, h)}
<1>n. Len(f) \in Nat /\ SubSeq(f, 1, Len(f)) = f
  BY SubSeqFull
<1>1. SUFFICES ASSUME T # {} PROVE FALSE
  <2>1. Len(f) \in 0..Len(f)
    BY <1>n
  <2>2. Len(f) \notin T => RecordsCopied(SubSeq(f, 1, Len(f)), u, h)
    BY <2>1
  <2> HIDE DEF T
  <2> QED BY <2>2, <1>n
<1>2. PICK m \in T : \A n \in T : m <= n
  <2>1. T \subseteq Nat
    OBVIOUS
  <2> HIDE DEF T
  <2> QED BY <2>1, <1>1, Least
<1>3. m # 0
  <2>1. SubSeq(f, 1, 0) = <<>>
    OBVIOUS
  <2>2. <<>> \in Seq(Line) /\ \A v : RecordsOf(<<>>, v) = <<>>
    BY DEF RecordsOf, FlattenSeq
  <2>3. Rewritten(<<>>, u, h) = <<>> /\ ~HasRecord(<<>>, u)
    BY DEF Rewritten, FlattenSeq, HasRecord
  <2>4. RecordsCopied(<<>>, u, h)
    BY <2>2, <2>3 DEF RecordsCopied
  <2> QED BY <2>1, <2>4, <1>2
<1>4. m - 1 \in 0..Len(f) /\ m \in 1..Len(f)
  BY <1>3, <1>n
<1> DEFINE s == SubSeq(f, 1, m - 1)
<1>5. RecordsCopied(s, u, h)
  <2>1. m - 1 \notin T
    <3> HIDE DEF T
    <3> QED BY <1>2, <1>4
  <2> QED BY <2>1, <1>4
<1>6. s \in Seq(Line) /\ Len(s) = m - 1 /\ \A i \in 1..(m - 1) : s[i] = f[i]
  BY <1>4, SubSeqProperties
<1>7. /\ SubSeq(f, 1, m) \in Seq(Line) /\ Len(SubSeq(f, 1, m)) = m
      /\ \A i \in 1..m : SubSeq(f, 1, m)[i] = f[i]
  BY <1>4, SubSeqProperties
<1>8. f[m] \in Line
  BY <1>4
<1> DEFINE e == SubSeq(f, 1, m)
<1> HIDE DEF s, T, e
<1>9. Append(s, f[m]) = e
  <2>1. /\ e \in Seq(Line) /\ Len(e) = Len(s) + 1 /\ e[Len(s) + 1] = f[m]
        /\ \A i \in 1..Len(s) : e[i] = s[i]
    BY <1>4, <1>6, <1>7 DEF e
  <2> QED BY <2>1, <1>6, <1>8, AppendedIs
<1>10. RecordsCopied(e, u, h)
  BY <1>5, <1>6, <1>8, <1>9, CopiesOneMore
<1> QED BY <1>2, <1>10 DEF e, T

\* What is written for an edit of the file f.
Edited(f, u, h) ==
    IF h # "none" /\ ~HasRecord(f, u) THEN Append(Rewritten(f, u, h), NewRecord(u, h)) ELSE Rewritten(f, u, h)

\* What an edit of the file f has to write.
EditedExactly(f, t, u, h) ==
    /\ t \in Seq(Line) /\ RecordsOf(t, u) = IF h = "none" THEN <<>> ELSE <<NewRecord(u, h)>>
    /\ \A v : v # u => RecordsOf(t, v) = RecordsOf(f, v)

\* It writes that (mg_modify_passwords_file_ha1).
LEMMA EditIsExact ==
    ASSUME NEW f \in Seq(Line), NEW u \in AuthUsers, NEW h \in Hashes \cup {"none"}
    PROVE  EditedExactly(f, Edited(f, u, h), u, h)
<1> DEFINE t == Rewritten(f, u, h)
           y == NewRecord(u, h)
<1>1. t \in Seq(Line)
  <2>1. Comment \in Line
    BY DEF Line
  <2> QED BY <2>1, RewrittenOfAppend
<1>2. \A v : RecordsOf(t, v) = IF v # u THEN RecordsOf(f, v) ELSE IF h = "none" \/ ~HasRecord(f, u) THEN <<>> ELSE <<y>>
  BY FileIsCopied DEF RecordsCopied
<1>3. h # "none" => y \in Line /\ \A v : Own(y, v) = IF v = u THEN <<y>> ELSE <<>>
  BY DEF NewRecord, Line, Records, IsRecordOf, Own
<1> HIDE DEF t, y
<1>4. CASE h # "none" /\ ~HasRecord(f, u)
  <2>1. Edited(f, u, h) = Append(t, y)
    BY <1>4 DEF Edited, t, y
  <2>2. ASSUME NEW v
        PROVE  /\ RecordsOf(Append(t, y), v) = RecordsOf(t, v) \o Own(y, v)
               /\ RecordsOf(t, v) \in Seq(Line)
    BY <1>1, <1>3, <1>4, RecordsOfAppend
  <2>3. \A x \in Seq(Line) : x \o <<>> = x /\ <<>> \o x = x
    OBVIOUS
  <2>4. <<y>> \in Seq(Line) /\ Append(t, y) \in Seq(Line)
    BY <1>1, <1>3, <1>4
  <2>5. RecordsOf(Append(t, y), u) = <<y>>
    <3>1. RecordsOf(t, u) = <<>> /\ Own(y, u) = <<y>>
      BY <1>2, <1>3, <1>4
    <3> QED BY <2>2, <2>3, <2>4, <3>1
  <2>6. ASSUME NEW v, v # u PROVE RecordsOf(Append(t, y), v) = RecordsOf(f, v)
    <3>1. RecordsOf(t, v) = RecordsOf(f, v) /\ Own(y, v) = <<>>
      BY <1>2, <1>3, <1>4, <2>6
    <3> QED BY <2>2, <2>3, <3>1
  <2> QED BY <2>1, <2>4, <2>5, <2>6, <1>4 DEF EditedExactly, y
<1>5. CASE ~(h # "none" /\ ~HasRecord(f, u))
  <2>1. Edited(f, u, h) = t
    BY <1>5 DEF Edited, t
  <2> QED BY <2>1, <1>1, <1>2, <1>5 DEF EditedExactly, y
<1> QED BY <1>4, <1>5
-----------------------------------------------------------------------------

\* Nonces of any server run.
Nonce == [run : Nat, num : Nat]

\* The states of the thread that edits the file.
EditType == [at : {"idle", "read", "writing", "done"}, user : AuthUsers \cup {"none"}, ha1 : Hashes \cup {"none"},
             temp : Seq(Line), found : BOOLEAN, old : Seq(Line)]

\* The states of a request.
AuthType == [at : {"idle", "parse", "reading", "end"}, user : AuthUsers \cup {"none"}, ha1 : Hashes \cup {"none"},
             type : {0, 1, 2}, nonce : Nonce, frames : Seq(Nat \ {0}), seen : SUBSET Line, granted : BOOLEAN]

\* The lines p are the first lines of t.
Begins(p, t) == Len(p) <= Len(t) /\ \A i \in 1..Len(p) : p[i] = t[i]

\* The edit e, with the lines p in the file.
EditOk(e, p) ==
    /\ e \in EditType
    /\ e.at # "idle" => e.user \in AuthUsers /\ e.temp = Edited(e.old, e.user, e.ha1)
    /\ e.at = "writing" => Begins(p, e.temp)
    /\ e.at = "done" => p = e.temp

\* A nonce of this run that was sent in a 401 response.
NonceSent(n, sent, run) == n \in sent /\ n.run = run

\* A request a, with the nonces that were sent and the number of the run.
AuthOk(a, sent, run) ==
    /\ a \in AuthType
    /\ a.at = "reading" => a.frames # <<>>
    /\ a.granted = TRUE => a.at = "end" /\ [kind |-> "record", user |-> a.user, ha1 |-> a.ha1] \in a.seen
    /\ a.type = 2 /\ (a.at = "reading" \/ a.granted = TRUE) => NonceSent(a.nonce, sent, run)

\* A request that reads the file has seen every line of it.
Sees(a, p) == a.at = "reading" => \A i \in 1..Len(p) : p[i] \in a.seen

\* All numbers below nonce_count were sent as nonces of this run.
NoncesOk(sent, run, count) ==
    /\ run \in Nat /\ count \in Nat
    /\ \A n \in Nat : n < count => [run |-> run, num |-> n] \in sent

\* The inductive invariant: the file that is written is the beginning of what the edit has in
\* memory, and a request that reads has seen all lines of the file and has a nonce of this run.
AuthInv ==
    /\ passfile \in Seq(Line)
    /\ NoncesOk(issued, serverRun, nonce_count)
    /\ EditOk(edit, passfile)
    /\ AuthOk(auth, issued, serverRun)
    /\ Sees(auth, passfile)

\* It implies the property.
LEMMA AuthSafe == AuthInv => AuthExact
<1> SUFFICES ASSUME AuthInv PROVE AuthExact
  OBVIOUS
<1>1. GrantedByRecord
  BY DEF AuthInv, AuthOk, AuthType, NonceSent, GrantedByRecord
<1>2. EditExact
  <2> SUFFICES ASSUME edit.at = "done" PROVE EditExact
    BY DEF EditExact
  <2>1. /\ edit.user \in AuthUsers /\ edit.ha1 \in Hashes \cup {"none"} /\ edit.old \in Seq(Line)
        /\ edit.temp = Edited(edit.old, edit.user, edit.ha1) /\ passfile = edit.temp
    BY DEF AuthInv, EditOk, EditType
  <2>2. EditedExactly(edit.old, passfile, edit.user, edit.ha1)
    BY <2>1, EditIsExact
  <2> QED BY <2>2 DEF EditedExactly, EditExact, NewRecord
<1> QED BY <1>1, <1>2 DEF AuthExact

\* It holds at the beginning, with an empty file and no nonce sent.
LEMMA AuthBegins == AuthInit => AuthInv
<1> SUFFICES ASSUME AuthInit PROVE AuthInv
  OBVIOUS
<1>1. passfile \in Seq(Line)
  BY DEF AuthInit
<1>2. NoncesOk(issued, serverRun, nonce_count)
  BY DEF AuthInit, NoncesOk
<1>3. EditOk(edit, passfile)
  BY DEF AuthInit, NoEdit, EditOk, EditType
<1>4. AuthOk(auth, issued, serverRun) /\ Sees(auth, passfile)
  <2>1. NoAuth.nonce \in Nonce
    BY DEF NoAuth, Nonce
  <2>2. NoAuth \in AuthType
    BY DEF NoAuth, Nonce, AuthType
  <2> QED BY <2>2 DEF AuthInit, NoAuth, AuthOk, Sees
<1> QED BY <1>1, <1>2, <1>3, <1>4 DEF AuthInv

\* The request as it was, with more lines seen.
LEMMA SeeingMore ==
    ASSUME AuthInv, NEW p \in Seq(Line), Seeing(p)
    PROVE  AuthOk(auth', issued, serverRun) /\ Sees(auth', p)
<1>1. auth \in AuthType /\ AuthOk(auth, issued, serverRun)
  BY DEF AuthInv, AuthOk
<1>2. DOMAIN p = 1..Len(p) /\ \A i \in 1..Len(p) : p[i] \in Line
  OBVIOUS
<1>3. CASE auth.at = "reading"
  <2> DEFINE more == auth.seen \cup {p[i] : i \in DOMAIN p}
  <2>1. auth' = [auth EXCEPT !.seen = more]
    BY <1>3 DEF Seeing
  <2>2. more \in SUBSET Line
    BY <1>1, <1>2 DEF AuthType
  <2>3. auth.seen \subseteq more /\ \A i \in 1..Len(p) : p[i] \in more
    BY <1>2
  <2> HIDE DEF more
  <2>4. auth' \in AuthType
    BY <1>1, <2>1, <2>2 DEF AuthType
  <2>5. /\ auth'.seen = more /\ auth'.at = auth.at /\ auth'.frames = auth.frames /\ auth'.granted = auth.granted
        /\ auth'.type = auth.type /\ auth'.nonce = auth.nonce /\ auth'.user = auth.user
        /\ auth'.ha1 = auth.ha1
    BY <1>1, <2>1 DEF AuthType
  <2> QED BY <1>1, <2>3, <2>4, <2>5 DEF AuthOk, Sees
<1>4. CASE auth.at # "reading"
  BY <1>1, <1>4 DEF Seeing, Sees
<1> QED BY <1>3, <1>4

\* An edit reads the file into memory (mg_modify_passwords_file_ha1).
LEMMA EditsStep ==
    ASSUME AuthInv, NEW u \in AuthUsers, NEW h \in Hashes \cup {"none"}, EditBegin(u, h)
    PROVE  AuthInv'
<1> DEFINE t == Edited(passfile, u, h)
<1>1. t \in Seq(Line)
  BY EditIsExact DEF EditedExactly, AuthInv
<1>2. edit' = [at |-> "read", user |-> u, ha1 |-> h, old |-> passfile, found |-> HasRecord(passfile, u), temp |-> t]
  BY DEF EditBegin, Edited, NewRecord
<1>3. HasRecord(passfile, u) \in BOOLEAN
  BY DEF HasRecord
<1>4. t = Edited(passfile, u, h) /\ passfile \in Seq(Line)
  BY DEF AuthInv
<1> HIDE DEF t
<1>5. edit' \in EditType
  BY <1>1, <1>2, <1>3, <1>4 DEF EditType
<1>6. EditOk(edit', passfile)
  BY <1>2, <1>4, <1>5 DEF EditOk
<1> QED BY <1>6 DEF EditBegin, AuthInv

\* A thread that edits nothing.
LEMMA NoEditOk == \A p : EditOk(NoEdit, p)
BY DEF NoEdit, EditOk, EditType

\* The file is truncated and written line by line, also while a request reads it, and the
\* editing ends or fails (mg_modify_passwords_file_ha1).
LEMMA WritesStep ==
    ASSUME AuthInv, EditTruncate \/ EditWrite \/ EditDone \/ EditWriteFails
    PROVE  AuthInv'
<1>1. /\ edit \in EditType /\ EditOk(edit, passfile) /\ passfile \in Seq(Line)
      /\ edit.temp \in Seq(Line)
  BY DEF AuthInv, EditOk, EditType
<1>2. CASE EditTruncate
  <2>1. passfile' = <<>> /\ edit' = [edit EXCEPT !.at = "writing"] /\ edit.at = "read"
    BY <1>2 DEF EditTruncate
  <2>2. edit' \in EditType /\ edit'.at = "writing" /\ edit'.user = edit.user /\ edit'.temp = edit.temp
        /\ edit'.old = edit.old /\ edit'.ha1 = edit.ha1
    BY <1>1, <2>1 DEF EditType
  <2>3. Begins(<<>>, edit.temp) /\ Sees(auth, <<>>) /\ <<>> \in Seq(Line)
    BY <1>1 DEF Begins, Sees
  <2>4. EditOk(edit', passfile')
    BY <1>1, <2>1, <2>2, <2>3 DEF EditOk
  <2> QED BY <2>1, <2>3, <2>4, <1>2 DEF EditTruncate, AuthInv
<1>3. CASE EditWrite
  <2> DEFINE l == Len(passfile)
             q == Append(passfile, edit.temp[l + 1])
  <2>1. /\ l \in Nat /\ l + 1 \in 1..Len(edit.temp) /\ Begins(passfile, edit.temp)
        /\ edit.at = "writing"
    BY <1>1, <1>3 DEF EditWrite, EditOk
  <2>2. edit.temp[l + 1] \in Line
    BY <1>1, <2>1
  <2>3. /\ q \in Seq(Line) /\ Len(q) = l + 1 /\ q[l + 1] = edit.temp[l + 1]
        /\ \A i \in 1..l : q[i] = passfile[i]
    BY <1>1, <2>2, AppendProperties
  <2>4. passfile' = q /\ Seeing(q) /\ edit' = edit
    BY <1>3 DEF EditWrite
  <2> HIDE DEF q
  <2>5. Begins(q, edit.temp)
    <3>1. \A i \in 1..(l + 1) : i \in 1..l \/ i = l + 1
      BY <2>1
    <3> QED BY <2>1, <2>3, <3>1 DEF Begins
  <2>6. EditOk(edit, q)
    BY <1>1, <2>1, <2>5 DEF EditOk
  <2>7. AuthOk(auth', issued, serverRun) /\ Sees(auth', q)
    BY <2>3, <2>4, SeeingMore
  <2> QED BY <2>3, <2>4, <2>6, <2>7, <1>3 DEF EditWrite, AuthInv
<1>4. CASE EditDone
  <2>1. edit' = [edit EXCEPT !.at = "done"] /\ edit.at = "writing" /\ Len(passfile) = Len(edit.temp)
    BY <1>4 DEF EditDone
  <2>2. edit' \in EditType /\ edit'.at = "done" /\ edit'.user = edit.user /\ edit'.temp = edit.temp
        /\ edit'.old = edit.old /\ edit'.ha1 = edit.ha1
    BY <1>1, <2>1 DEF EditType
  <2>3. \A i \in 1..Len(passfile) : passfile[i] = edit.temp[i]
    BY <1>1, <2>1 DEF EditOk, Begins
  <2>4. passfile = edit.temp
    BY <1>1, <2>1, <2>3, SeqEqual
  <2>5. EditOk(edit', passfile)
    BY <1>1, <2>1, <2>2, <2>4 DEF EditOk
  <2> QED BY <2>5, <1>4 DEF EditDone, AuthInv
<1>5. CASE EditWriteFails
  <2>1. passfile' \in Seq(Line)
    <3>1. CASE passfile' = passfile
      BY <1>1, <3>1
    <3>2. CASE Len(passfile) < Len(edit.temp) - 1 /\ passfile' = Append(passfile, edit.temp[Len(edit.temp)])
      <4>1. Len(edit.temp) \in 1..Len(edit.temp)
        BY <1>1, <3>2
      <4>2. edit.temp[Len(edit.temp)] \in Line
        BY <1>1, <4>1
      <4> QED BY <1>1, <3>2, <4>2
    <3> QED BY <3>1, <3>2, <1>5 DEF EditWriteFails
  <2>2. AuthOk(auth', issued, serverRun) /\ Sees(auth', passfile')
    <3>1. PICK q : q = passfile'
      OBVIOUS
    <3>2. Seeing(q)
      BY <3>1, <1>5 DEF EditWriteFails, Seeing
    <3> QED BY <2>1, <3>1, <3>2, SeeingMore
  <2> QED BY <2>1, <2>2, <1>5, NoEditOk DEF EditWriteFails, AuthInv
<1> QED BY <1>2, <1>3, <1>4, <1>5

\* A 401 response is sent, or the server is started again (send_authorization_request).
LEMMA RunsStep == ASSUME AuthInv, Challenge \/ NextRun PROVE AuthInv'
<1>1. /\ AuthOk(auth, issued, serverRun) /\ auth \in AuthType
      /\ NoncesOk(issued, serverRun, nonce_count)
  BY DEF AuthInv, AuthOk
<1>2. CASE Challenge
  <2>1. /\ issued' = issued \cup {[run |-> serverRun, num |-> nonce_count]}
        /\ nonce_count' = nonce_count + 1 /\ serverRun' = serverRun
    BY <1>2 DEF Challenge
  <2>2. NoncesOk(issued', serverRun, nonce_count')
    <3>1. \A n \in Nat : n < nonce_count + 1 => n < nonce_count \/ n = nonce_count
      BY <1>1 DEF NoncesOk
    <3> QED BY <1>1, <2>1, <3>1 DEF NoncesOk
  <2>3. AuthOk(auth, issued', serverRun)
    BY <1>1, <2>1 DEF AuthOk, NonceSent
  <2> QED BY <1>2, <2>1, <2>2, <2>3 DEF Challenge, AuthInv
<1>3. CASE NextRun
  <2>1. serverRun' = serverRun + 1 /\ nonce_count' = 0 /\ auth.at = "idle" /\ issued' = issued
    BY <1>3 DEF NextRun
  <2>2. NoncesOk(issued, serverRun', nonce_count')
    BY <1>1, <2>1 DEF NoncesOk
  <2>3. AuthOk(auth, issued, serverRun')
    BY <1>1, <2>1 DEF AuthOk, AuthType
  <2> QED BY <1>3, <2>1, <2>2, <2>3 DEF NextRun, AuthInv
<1> QED BY <1>2, <1>3

\* A request arrives.
LEMMA RequestStep ==
    ASSUME AuthInv, NEW type \in {1, 2}, NEW u \in AuthUsers, NEW h \in Hashes, NEW n \in Nonce,
           AuthRequest(type, u, h, n)
    PROVE  AuthInv'
<1>1. auth' = [at |-> "parse", user |-> u, ha1 |-> h, type |-> type, nonce |-> n,
               frames |-> <<>>, seen |-> {}, granted |-> FALSE]
  BY DEF AuthRequest
<1>2. auth' \in AuthType
  BY <1>1 DEF AuthType
<1>3. AuthOk(auth', issued, serverRun) /\ Sees(auth', passfile)
  BY <1>1, <1>2 DEF AuthOk, Sees
<1> QED BY <1>3 DEF AuthRequest, AuthInv

\* Where a request goes to.
LEMMA GoesTo ==
    ASSUME AuthInv, auth.at \in {"parse", "reading"}, NEW at \in {"reading", "end"},
           NEW frames \in Seq(Nat \ {0}), NEW seen \in SUBSET Line, NEW granted \in BOOLEAN,
           AuthGoesTo(at, frames, seen, granted), at = "reading" => frames # <<>> /\ granted = FALSE,
           at = "reading" => \A i \in 1..Len(passfile) : passfile[i] \in seen,
           granted = TRUE => [kind |-> "record", user |-> auth.user, ha1 |-> auth.ha1] \in seen,
           auth.type = 2 /\ (at = "reading" \/ granted = TRUE) => NonceSent(auth.nonce, issued, serverRun)
    PROVE  AuthOk(auth', issued, serverRun) /\ Sees(auth', passfile)
<1>1. auth' = [at |-> at, user |-> auth.user, ha1 |-> auth.ha1, type |-> auth.type, nonce |-> auth.nonce,
               frames |-> frames, seen |-> seen, granted |-> granted]
  BY DEF AuthGoesTo
<1>2. auth \in AuthType
  BY DEF AuthInv, AuthOk
<1>3. auth' \in AuthType
  BY <1>1, <1>2 DEF AuthType
<1>4. /\ auth'.at = at /\ auth'.frames = frames /\ auth'.seen = seen /\ auth'.granted = granted
      /\ auth'.type = auth.type /\ auth'.nonce = auth.nonce /\ auth'.user = auth.user
      /\ auth'.ha1 = auth.ha1
  BY <1>1
<1> QED BY <1>3, <1>4 DEF AuthOk, Sees

\* The header is parsed and the nonce compared with those of this run (parse_auth_header).
LEMMA ParseStep == ASSUME AuthInv, Parse PROVE AuthInv'
<1>1. auth \in AuthType /\ auth.at = "parse" /\ passfile \in Seq(Line) /\ auth.nonce \in Nonce
  BY DEF AuthInv, AuthOk, AuthType, Parse
<1>2. CASE auth.type = 2 /\ ~ValidNonce(auth.nonce)
  <2>1. AuthGoesTo("end", <<>>, {}, FALSE)
    BY <1>2 DEF Parse
  <2>2. <<>> \in Seq(Nat \ {0}) /\ {} \in SUBSET Line /\ "end" # "reading"
    OBVIOUS
  <2>3. AuthOk(auth', issued, serverRun) /\ Sees(auth', passfile)
    BY <1>1, <2>1, <2>2, GoesTo
  <2> QED BY <2>3 DEF Parse, AuthInv
<1>3. CASE ~(auth.type = 2 /\ ~ValidNonce(auth.nonce))
  <2> DEFINE seen == {passfile[i] : i \in DOMAIN passfile}
  <2>1. AuthGoesTo("reading", <<1>>, seen, FALSE)
    BY <1>3 DEF Parse
  <2>2. DOMAIN passfile = 1..Len(passfile) /\ \A i \in 1..Len(passfile) : passfile[i] \in Line
    BY <1>1
  <2>3. seen \in SUBSET Line /\ \A i \in 1..Len(passfile) : passfile[i] \in seen
    BY <2>2
  <2>4. ASSUME auth.type = 2 PROVE NonceSent(auth.nonce, issued, serverRun)
    <3>1. ValidNonce(auth.nonce)
      BY <1>3, <2>4
    <3>2. auth.nonce = [run |-> auth.nonce.run, num |-> auth.nonce.num] /\ auth.nonce.num \in Nat
      BY <1>1 DEF Nonce
    <3> QED BY <3>1, <3>2 DEF ValidNonce, NonceSent, AuthInv, NoncesOk
  <2>5. <<1>> \in Seq(Nat \ {0}) /\ <<1>> # <<>>
    OBVIOUS
  <2> HIDE DEF seen
  <2>6. AuthOk(auth', issued, serverRun) /\ Sees(auth', passfile)
    BY <1>1, <2>1, <2>3, <2>4, <2>5, GoesTo
  <2> QED BY <2>6 DEF Parse, AuthInv
<1> QED BY <1>2, <1>3

\* The positions in the files that are open, which include each other.
LEMMA FramesAre ==
    ASSUME NEW fs \in Seq(Nat \ {0}), fs # <<>>
    PROVE  /\ Next1(fs) \in Seq(Nat \ {0}) /\ Next1(fs) # <<>> /\ fs[Len(fs)] \in Nat \ {0}
           /\ Append(Next1(fs), 1) \in Seq(Nat \ {0}) /\ Append(Next1(fs), 1) # <<>>
           /\ Len(fs) # 1 => SubSeq(fs, 1, Len(fs) - 1) \in Seq(Nat \ {0}) /\ SubSeq(fs, 1, Len(fs) - 1) # <<>>
<1>1. Len(fs) \in 1..Len(fs) /\ Len(fs) \in Nat
  OBVIOUS
<1>2. fs[Len(fs)] \in Nat \ {0} /\ fs[Len(fs)] + 1 \in Nat \ {0}
  BY <1>1
<1>3. Next1(fs) \in Seq(Nat \ {0}) /\ Len(Next1(fs)) = Len(fs)
  BY <1>1, <1>2, ExceptSeq DEF Next1
<1>4. Next1(fs) # <<>>
  BY <1>1, <1>3
<1> HIDE DEF Next1
<1>5. Append(Next1(fs), 1) \in Seq(Nat \ {0}) /\ Len(Append(Next1(fs), 1)) = Len(fs) + 1
  BY <1>3
<1>6. Append(Next1(fs), 1) # <<>>
  BY <1>1, <1>5
<1>7. ASSUME Len(fs) # 1
      PROVE  SubSeq(fs, 1, Len(fs) - 1) \in Seq(Nat \ {0}) /\ SubSeq(fs, 1, Len(fs) - 1) # <<>>
  <2>1. Len(fs) - 1 \in 1..Len(fs) /\ Len(fs) - 1 \in 0..Len(fs) /\ Len(fs) - 1 # 0
    <3> DEFINE l == Len(fs)
    <3>1. l \in 1..l /\ l \in Nat /\ l # 1
      BY <1>1, <1>7
    <3> HIDE DEF l
    <3>2. l - 1 \in 1..l /\ l - 1 \in 0..l /\ l - 1 # 0
      BY ONLY <3>1
    <3> QED BY <3>2 DEF l
  <2>2. /\ SubSeq(fs, 1, Len(fs) - 1) \in Seq(Nat \ {0})
        /\ Len(SubSeq(fs, 1, Len(fs) - 1)) = Len(fs) - 1
    BY <2>1, SubSeqProperties
  <2>3. Len(<<>>) = 0
    OBVIOUS
  <2> QED BY <2>1, <2>2, <2>3
<1> QED BY <1>2, <1>3, <1>4, <1>5, <1>6, <1>7

\* A line is read: the end of a file, a line of no use, the user's record or an include
\* (read_auth_file).
LEMMA ReadsStep == ASSUME AuthInv, ReadEnd \/ ReadSkip \/ ReadRecord \/ ReadInclude PROVE AuthInv'
<1>1. /\ auth.at = "reading" /\ auth \in AuthType /\ auth.frames \in Seq(Nat \ {0}) /\ auth.frames # <<>>
      /\ auth.seen \in SUBSET Line /\ passfile \in Seq(Line) /\ auth.granted = FALSE
      /\ auth.type = 2 => NonceSent(auth.nonce, issued, serverRun)
      /\ \A i \in 1..Len(passfile) : passfile[i] \in auth.seen
  BY DEF AuthInv, AuthOk, AuthType, Sees, ReadEnd, ReadSkip, ReadRecord, ReadInclude, AtLine
<1>2. UNCHANGED <<passfile, edit, serverRun, nonce_count, issued>>
  BY DEF ReadEnd, ReadSkip, ReadRecord, ReadInclude
<1> DEFINE rec == [kind |-> "record", user |-> auth.user, ha1 |-> auth.ha1]
<1>3. ASSUME NEW r \in BOOLEAN, AuthReturns(r), r = TRUE => rec \in auth.seen
      PROVE AuthOk(auth', issued, serverRun) /\ Sees(auth', passfile)
  <2>1. CASE r \/ Len(auth.frames) = 1
    <3>1. AuthGoesTo("end", <<>>, auth.seen, r)
      BY <1>3, <2>1 DEF AuthReturns
    <3>2. <<>> \in Seq(Nat \ {0}) /\ "end" # "reading"
      OBVIOUS
    <3> QED BY <1>1, <1>3, <3>1, <3>2, GoesTo
  <2>2. CASE ~(r \/ Len(auth.frames) = 1)
    <3>1. AuthGoesTo("reading", Outer, auth.seen, FALSE)
      BY <1>3, <2>2 DEF AuthReturns
    <3>2. Outer \in Seq(Nat \ {0}) /\ Outer # <<>>
      BY <1>1, <2>2, FramesAre DEF Outer
    <3> QED BY <1>1, <3>1, <3>2, GoesTo
  <2> QED BY <2>1, <2>2
<1>4. ASSUME NEW fs \in Seq(Nat \ {0}), fs # <<>>, auth' = [auth EXCEPT !.frames = fs]
      PROVE AuthOk(auth', issued, serverRun) /\ Sees(auth', passfile)
  <2>1. AuthGoesTo("reading", fs, auth.seen, FALSE)
    BY <1>1, <1>4 DEF AuthGoesTo, AuthType
  <2> QED BY <1>1, <1>4, <2>1, GoesTo
<1>5. AuthOk(auth', issued, serverRun) /\ Sees(auth', passfile)
  <2>1. CASE ReadEnd
    BY <2>1, <1>3 DEF ReadEnd
  <2>2. CASE ReadSkip
    <3>1. Next1(auth.frames) \in Seq(Nat \ {0}) /\ Next1(auth.frames) # <<>>
      BY <1>1, FramesAre
    <3>2. auth' = [auth EXCEPT !.frames = Next1(auth.frames)]
      BY <2>2 DEF ReadSkip
    <3> QED BY <3>1, <3>2, <1>4
  <2>3. CASE ReadRecord
    <3>1. /\ passfile[AuthFrame].kind = "record" /\ passfile[AuthFrame].user = auth.user
          /\ AuthFrame <= Len(passfile) /\ AuthReturns(passfile[AuthFrame].ha1 = auth.ha1)
      BY <2>3 DEF ReadRecord, AtLine
    <3>2. AuthFrame \in 1..Len(passfile)
      BY <1>1, <3>1, FramesAre DEF AuthFrame
    <3>3. passfile[AuthFrame] \in auth.seen /\ passfile[AuthFrame] \in Records
      BY <1>1, <3>1, <3>2, LineIs
    <3>4. passfile[AuthFrame].ha1 = auth.ha1 => passfile[AuthFrame] = rec
      BY <3>1, <3>3 DEF Records
    <3> HIDE DEF rec
    <3> QED BY <3>1, <3>3, <3>4, <1>3
  <2>4. CASE ReadInclude
    <3> DEFINE fs == IF Len(auth.frames) < InitialDepth THEN Append(Next1(auth.frames), 1) ELSE Next1(auth.frames)
    <3>1. fs \in Seq(Nat \ {0}) /\ fs # <<>>
      BY <1>1, FramesAre
    <3>2. auth' = [auth EXCEPT !.frames = fs]
      BY <2>4 DEF ReadInclude
    <3> HIDE DEF fs
    <3> QED BY <3>1, <3>2, <1>4
  <2> QED BY <2>1, <2>2, <2>3, <2>4
<1> QED BY <1>2, <1>5 DEF AuthInv

\* Every step keeps the invariant.
LEMMA AuthStep == AuthInv /\ [AuthNext]_authVars => AuthInv'
<1> SUFFICES ASSUME AuthInv, [AuthNext]_authVars PROVE AuthInv'
  OBVIOUS
<1>1. ASSUME NEW f \in UNION {[1..n -> Records \cup {Comment, Include}] : n \in 0..MaxRecords}, AdminWrites(f)
      PROVE  AuthInv'
  <2>1. f \in Seq(Line)
    BY DEF Line
  <2>2. edit.at = "idle" /\ auth.at = "idle" /\ passfile' = f
    BY <1>1 DEF AdminWrites
  <2>3. EditOk(edit, f) /\ Sees(auth, f)
    BY <2>2 DEF AuthInv, EditOk, Sees
  <2> QED BY <1>1, <2>1, <2>2, <2>3 DEF AdminWrites, AuthInv
<1>2. ASSUME NEW u \in AuthUsers, NEW h \in Hashes \cup {"none"}, EditBegin(u, h) PROVE AuthInv'
  BY <1>2, EditsStep
<1>3. CASE EditRefused \/ EditReturn
  BY <1>3, NoEditOk DEF EditRefused, EditReturn, AuthInv
<1>4. CASE EditTruncate \/ EditWrite \/ EditDone \/ EditWriteFails
  BY <1>4, WritesStep
<1>5. CASE Challenge \/ NextRun
  BY <1>5, RunsStep
<1>6. ASSUME NEW u \in AuthUsers, NEW h \in Hashes, NEW r \in 1..serverRun, NEW n \in 0..MaxNonces,
             AuthRequest(2, u, h, [run |-> r, num |-> n]) PROVE AuthInv'
  <2>1. [run |-> r, num |-> n] \in Nonce
    BY DEF AuthInv, NoncesOk, Nonce
  <2> QED BY <1>6, <2>1, RequestStep
<1>7. ASSUME NEW u \in AuthUsers, NEW h \in Hashes, AuthRequest(1, u, h, [run |-> 0, num |-> 0])
      PROVE  AuthInv'
  <2>1. [run |-> 0, num |-> 0] \in Nonce
    BY DEF Nonce
  <2> QED BY <1>7, <2>1, RequestStep
<1>8. CASE Parse
  BY <1>8, ParseStep
<1>9. CASE ReadEnd \/ ReadSkip \/ ReadRecord \/ ReadInclude
  BY <1>9, ReadsStep
<1>10. CASE AuthEnd
  <2>1. NoAuth \in AuthType
    BY DEF NoAuth, AuthType, Nonce
  <2>2. AuthOk(NoAuth, issued, serverRun) /\ Sees(NoAuth, passfile)
    BY <2>1 DEF AuthOk, Sees, NoAuth
  <2> QED BY <1>10, <2>2 DEF AuthEnd, AuthInv
<1>11. CASE UNCHANGED authVars
  BY <1>11 DEF authVars, AuthInv
<1> QED BY <1>1, <1>2, <1>3, <1>4, <1>5, <1>6, <1>7, <1>8, <1>9, <1>10, <1>11 DEF AuthNext

\* Auth: who is let in has had a record with that hash in the password file since the request
\* began, and a nonce of this run of the server; an edit that returns 1 leaves the user with the
\* new hash or no record and all others as they were, for any users, files, depth of includes and
\* number of requests (read_auth_file, parse_auth_header, mg_modify_passwords_file_ha1).
THEOREM AccessByRecord == AuthSpec => []AuthExact
<1>1. AuthSpec => []AuthInv
  BY AuthBegins, AuthStep, PTL DEF AuthSpec
<1>2. AuthInv => AuthExact
  BY AuthSafe
<1> QED BY <1>1, <1>2, PTL

-----------------------------------------------------------------------------
(* StaticFile: the bytes of a file *)

\* The requests.
GetType == [head : BOOLEAN, n : Int, r1 : Int, r2 : Int, accept_gzip : BOOLEAN,
            file : {"plain", "gz"}, is_gzipped : BOOLEAN, size : Nat]

\* The answers.
OutType == [status : Nat, cl : Int, body : Seq(Int), offset : Int, len : Int, loops : {0, 1}, fault : BOOLEAN]

\* The first byte to send, and the length that is announced, of a request for a file of that size.
FirstOf(g) == IF g.r1 < 0 THEN 0 ELSE IF g.r1 > g.size THEN g.size ELSE g.r1

\* The request has a range.
RangeOf(g) == g.n > 0 /\ g.r1 >= 0 /\ g.r2 >= 0

\* The length that is announced.
LengthOf(g) ==
    IF ~RangeOf(g) THEN g.size
    ELSE IF g.n = 2 THEN (IF g.r2 > g.size THEN g.size ELSE g.r2) - g.r1 + 1 ELSE g.size - g.r1

\* The bytes b are those of the file from first on, without a gap.
Body(b, first) == \A k \in 1..Len(b) : b[k] = first + k - 1

\* The answer o to the request g while the body is sent or was sent.  The length that is
\* announced is computed from the size before the file was opened.
Announced(g, o) ==
    /\ o.fault = FALSE => o.cl = LengthOf(g)
    /\ Body(o.body, FirstOf(g))
    /\ o.body # <<>> => Len(o.body) <= o.cl

\* Where send_file_data is: the offset is behind what was sent, and what is left is what was
\* announced less what was sent.
Progress(g, o) ==
    o.len >= 0 /\ o.offset = FirstOf(g) + Len(o.body) /\ o.len = o.cl - Len(o.body)

\* The range is in the file.
FitsFile(g) ==
    IF RangeOf(g) THEN g.r1 < g.size /\ (g.n = 2 => g.r1 <= g.r2 /\ g.r2 < g.size) ELSE FirstOf(g) = 0

\* The inductive invariant: what was sent is a part of the file from the first byte on, it is
\* no longer than announced, and the offset and the length that is left say where to go on;
\* unless there was a fault all that was announced is sent when the file is closed.
StaticInv ==
    /\ disk \in [{"plain", "gz"} -> Int] /\ get \in GetType /\ out \in OutType
    /\ sfpc \in {"idle", "choose", "open", "range", "sendfile", "seek", "read", "close", "error"}
    /\ sfpc \in {"idle", "choose", "open", "range"} => out.body = <<>>
    /\ sfpc \in {"open", "range"} /\ out.fault = FALSE => out.cl = get.size
    /\ sfpc \in {"sendfile", "seek", "read", "close"} => Announced(get, out)
    /\ sfpc \in {"sendfile", "seek", "read"} => Progress(get, out)
    /\ sfpc = "error" => BodyInOrder
    /\ sfpc # "idle" /\ out.fault = FALSE => (sfpc = "error" \/ get.size = FileSize)
    /\ sfpc = "close" /\ out.fault = FALSE /\ get.head = FALSE /\ FitsFile(get) => Len(out.body) = out.cl

\* The first byte and the length of the model are those of the request.
LEMMA Reads ==
    ASSUME StaticInv
    PROVE  /\ FirstByte = FirstOf(get) /\ (HasRange <=> RangeOf(get))
           /\ (sfpc = "range" /\ HasRange => RangeLength \in Int)
           /\ (sfpc = "range" /\ HasRange /\ out.fault = FALSE => RangeLength = LengthOf(get))
<1>1. get \in GetType /\ out \in OutType
  BY DEF StaticInv
<1>2. FirstByte = FirstOf(get)
  BY <1>1 DEF FirstByte, FirstOf, Smallest, GetType
<1>3. HasRange <=> RangeOf(get)
  BY DEF HasRange, RangeOf
<1>4. ASSUME sfpc = "range", HasRange, out.fault = FALSE PROVE RangeLength = LengthOf(get)
  <2>1. out.cl = get.size
    BY <1>4 DEF StaticInv
  <2> QED BY <1>3, <1>4, <2>1, <1>1 DEF RangeLength, LengthOf, Smallest
<1>5. RangeLength \in Int
  BY <1>1 DEF RangeLength, Smallest, GetType, OutType
<1> QED BY <1>2, <1>3, <1>4, <1>5

\* It implies the two properties of static files.
LEMMA StaticSafe == StaticInv => BodyInOrder /\ LengthSent
<1> SUFFICES ASSUME StaticInv PROVE BodyInOrder /\ LengthSent
  OBVIOUS
<1>0. out \in OutType /\ get \in GetType
  BY DEF StaticInv
<1>1. BodyInOrder
  <2>1. CASE sfpc \in {"idle", "choose", "open", "range"}
    BY <2>1 DEF StaticInv, BodyInOrder
  <2>2. CASE sfpc \in {"sendfile", "seek", "read", "close"}
    <3>1. Announced(get, out)
      BY <2>2 DEF StaticInv
    <3> QED BY <3>1, Reads DEF Announced, Body, BodyInOrder
  <2>3. CASE sfpc = "error"
    BY <2>3 DEF StaticInv
  <2> QED BY <2>1, <2>2, <2>3 DEF StaticInv
<1>2. LengthSent
  <2>1. (IF HasRange THEN get.r1 < get.size /\ (get.n = 2 => get.r1 <= get.r2 /\ get.r2 < get.size)
                   ELSE FirstByte = 0) => FitsFile(get)
    BY Reads DEF FitsFile
  <2> QED BY <1>0, <2>1 DEF LengthSent, Undisturbed, StaticInv, GetType, OutType
<1> QED BY <1>1, <1>2

\* There is no request at the beginning.
LEMMA StaticBegins == StaticInit => StaticInv
<1> SUFFICES ASSUME StaticInit PROVE StaticInv
  OBVIOUS
<1>1. disk \in [{"plain", "gz"} -> Int]
  BY DEF StaticInit
<1>2. get \in GetType /\ out \in OutType /\ sfpc = "idle" /\ out.body = <<>>
  BY DEF StaticInit, NoGet, NoOut, GetType, OutType
<1> QED BY <1>1, <1>2 DEF StaticInv

\* n bytes more.
LEMMA Sends ==
    ASSUME StaticInv, sfpc \in {"sendfile", "read"}, NEW loops \in {0, 1},
           NEW n \in 1..Smallest(out.len, FileSize - out.offset)
    PROVE  /\ Send(n, loops) \in OutType /\ Announced(get, Send(n, loops)) /\ Progress(get, Send(n, loops))
           /\ Send(n, loops).fault = out.fault
<1>1. /\ out \in OutType /\ get \in GetType /\ Announced(get, out) /\ Progress(get, out)
      /\ out.body \in Seq(Int) /\ out.offset \in Int /\ out.len \in Int /\ out.cl \in Int /\ FirstOf(get) \in Int
      /\ FileSize \in Int
  BY DEF StaticInv, OutType, GetType, FirstOf, FileSize
<1>2. n \in Nat /\ n >= 1 /\ n <= out.len
  BY <1>1 DEF Smallest
<1> DEFINE o == Send(n, loops)
           b == out.body
           m == Bytes(n)
<1>3. m \in Seq(Int) /\ Len(m) = n /\ \A k \in 1..n : m[k] = out.offset + k - 1
  BY <1>1, <1>2 DEF Bytes
<1> HIDE DEF m
<1>4. /\ b \o m \in Seq(Int) /\ Len(b \o m) = Len(b) + n /\ \A k \in 1..Len(b) : (b \o m)[k] = b[k]
      /\ \A k \in (Len(b) + 1)..(Len(b) + n) : (b \o m)[k] = m[k - Len(b)]
  <2>1. Len(b) \in Nat /\ b \o m \in Seq(Int) /\ Len(b \o m) = Len(b) + n
    <3>1. b \in Seq(Int)
      BY <1>1
    <3> HIDE DEF b
    <3>2. Len(b) \in Nat /\ b \o m \in Seq(Int) /\ Len(b \o m) = Len(b) + Len(m)
      <4>1. Len(b) \in Nat
        BY <3>1
      <4>2. m \in Seq(Int)
        BY <1>3
      <4>3. b \o m \in Seq(Int)
        BY ONLY <3>1, <4>2
      <4>4. Len(b \o m) = Len(b) + Len(m)
        BY ONLY <3>1, <4>2
      <4> QED BY <4>1, <4>3, <4>4
    <3> QED BY <3>2, <1>3
  <2>2. \A i \in 1..(Len(b) + n) : (b \o m)[i] = IF i <= Len(b) THEN b[i] ELSE m[i - Len(b)]
    BY <1>1, <1>3, ConcatProperties
  <2>3. \A k \in 1..Len(b) : k \in 1..(Len(b) + n) /\ k <= Len(b)
    BY <2>1, <1>2
  <2>4. \A k \in (Len(b) + 1)..(Len(b) + n) : k \in 1..(Len(b) + n) /\ ~(k <= Len(b))
    BY <2>1, <1>2
  <2> HIDE DEF b
  <2> QED BY <2>1, <2>2, <2>3, <2>4
<1>5. /\ o.body = b \o m /\ o.cl = out.cl /\ o.len = out.len - n /\ o.offset = out.offset + n /\ o.fault = out.fault
      /\ o \in OutType
  <2>1. o = [status |-> out.status, cl |-> out.cl, body |-> b \o m, offset |-> out.offset + n,
             len |-> out.len - n, loops |-> loops, fault |-> out.fault]
    BY DEF Send, m
  <2>2. out.offset + n \in Int /\ out.len - n \in Int /\ out.status \in Nat /\ out.fault \in BOOLEAN
    BY <1>1, <1>2 DEF OutType
  <2> HIDE DEF o, b
  <2> QED BY <2>1, <2>2, <1>1, <1>4 DEF OutType
<1> HIDE DEF o
<1>6. Body(b \o m, FirstOf(get))
  <2>1. Body(b, FirstOf(get)) /\ out.offset = FirstOf(get) + Len(b) /\ Len(b) \in Nat
    BY <1>1 DEF Announced, Progress
  <2> SUFFICES ASSUME NEW k \in 1..(Len(b) + n) PROVE (b \o m)[k] = FirstOf(get) + k - 1
    BY <1>4 DEF Body
  <2>2. CASE k \in 1..Len(b)
    BY <2>1, <2>2, <1>4 DEF Body
  <2>3. CASE k \notin 1..Len(b)
    <3>1. k \in (Len(b) + 1)..(Len(b) + n) /\ k - Len(b) \in 1..n
      BY <2>1, <2>3, <1>2
    <3>2. (b \o m)[k] = out.offset + (k - Len(b)) - 1
      BY <3>1, <1>3, <1>4
    <3> QED BY <3>1, <3>2, <2>1, <1>1, <1>2
  <2> QED BY <2>2, <2>3
<1>7. Len(b) \in Nat /\ out.len = out.cl - Len(b) /\ out.offset = FirstOf(get) + Len(b)
  BY <1>1 DEF Progress
<1>8. Progress(get, o)
  <2> HIDE DEF b
  <2>1. out.len \in Int /\ out.offset \in Int /\ out.cl \in Int /\ FirstOf(get) \in Int
    BY <1>1
  <2>2. o.len >= 0 /\ o.len = o.cl - (Len(b) + n) /\ o.offset = FirstOf(get) + (Len(b) + n)
    BY <2>1, <1>2, <1>5, <1>7
  <2> QED BY <2>2, <1>4, <1>5 DEF Progress
<1>9. Announced(get, o)
  <2>1. Len(b) + n <= out.cl
    BY <1>1, <1>2, <1>7
  <2>2. out.fault = FALSE => out.cl = LengthOf(get)
    BY <1>1 DEF Announced
  <2> QED BY <2>1, <2>2, <1>4, <1>5, <1>6 DEF Announced
<1> QED BY <1>5, <1>8, <1>9 DEF o

\* What was announced is in the file.
LEMMA FitsIn ==
    ASSUME NEW g \in GetType, FitsFile(g)
    PROVE  LengthOf(g) \in Nat /\ FirstOf(g) + LengthOf(g) <= g.size
BY DEF GetType, FitsFile, LengthOf, FirstOf, RangeOf

\* Where the file has ended nothing is left to send.
LEMMA EndReached ==
    ASSUME StaticInv, sfpc \in {"sendfile", "read"}, out.fault = FALSE, FitsFile(get),
           out.len <= 0 \/ out.offset >= FileSize
    PROVE  Len(out.body) = out.cl
<1>1. /\ get \in GetType /\ out \in OutType /\ Announced(get, out) /\ Progress(get, out) /\ get.size = FileSize
      /\ out.cl \in Int /\ out.len \in Int /\ out.offset \in Int /\ Len(out.body) \in Nat /\ get.size \in Nat
      /\ FirstOf(get) \in Int
  BY DEF StaticInv, OutType, GetType, FirstOf
<1>2. out.cl \in Nat /\ FirstOf(get) + out.cl <= get.size
  BY <1>1, FitsIn DEF Announced
<1> QED BY <1>1, <1>2 DEF Progress

\* Every step keeps the invariant: choosing and opening the file or its .gz, the range, sendfile
\* and read with any number of bytes, an error, and the file that changes on disk meanwhile
\* (handle_static_file_request, send_file_data).
LEMMA StaticStep == StaticInv /\ [StaticNext]_staticVars => StaticInv'
<1> SUFFICES ASSUME StaticInv, [StaticNext]_staticVars PROVE StaticInv'
  OBVIOUS
<1>0. disk \in [{"plain", "gz"} -> Int] /\ get \in GetType /\ out \in OutType
  BY DEF StaticInv
<1>n. NoOut \in OutType /\ NoOut.body = <<>> /\ NoGet \in GetType
  BY DEF NoOut, NoGet, OutType, GetType
<1>1. CASE GetFile
  <2>1. PICK plain \in Sizes, gz \in Sizes, head \in BOOLEAN, accept \in BOOLEAN, n \in -1..2,
          r1 \in -1..MaxSize, r2 \in -1..(MaxSize + 1) :
          /\ plain >= 0 \/ (accept /\ gz >= 0)
          /\ (n <= 0 => r1 = 0) /\ (n < 2 => r2 = 0)
          /\ disk' = [plain |-> plain, gz |-> gz]
          /\ get' = [head |-> head, n |-> n, r1 |-> r1, r2 |-> r2, accept_gzip |-> accept,
                     file |-> IF plain = -1 THEN "gz" ELSE "plain", is_gzipped |-> plain = -1,
                     size |-> IF plain = -1 THEN gz ELSE plain]
    BY <1>1, Zenon DEF GetFile
  <2>2. plain \in Int /\ gz \in Int /\ n \in Int /\ r1 \in Int /\ r2 \in Int /\ plain >= -1
    BY StaticFileAssumption DEF Sizes
  <2>z. PICK file \in {"plain", "gz"}, zipped \in BOOLEAN, size \in Nat :
            /\ size = IF file = "gz" THEN gz ELSE plain
            /\ get' = [head |-> head, n |-> n, r1 |-> r1, r2 |-> r2, accept_gzip |-> accept,
                       file |-> file, is_gzipped |-> zipped, size |-> size]
    <3>1. CASE plain = -1
      <4>1. (plain = -1) = TRUE /\ gz \in Nat
        BY <3>1, <2>1, <2>2
      <4>2. get' = [head |-> head, n |-> n, r1 |-> r1, r2 |-> r2, accept_gzip |-> accept,
                    file |-> "gz", is_gzipped |-> TRUE, size |-> gz]
        BY <2>1, <4>1, <3>1
      <4> QED BY <4>1, <4>2
    <3>2. CASE plain # -1
      <4>1. (plain = -1) = FALSE /\ plain \in Nat
        BY <3>2, <2>2
      <4>2. get' = [head |-> head, n |-> n, r1 |-> r1, r2 |-> r2, accept_gzip |-> accept,
                    file |-> "plain", is_gzipped |-> FALSE, size |-> plain]
        BY <2>1, <4>1, <3>2
      <4> QED BY <4>1, <4>2
    <3> QED BY <3>1, <3>2
  <2>3. disk' \in [{"plain", "gz"} -> Int] /\ get' \in GetType /\ get'.size = FileSize'
    <3>1. disk' \in [{"plain", "gz"} -> Int] /\ disk'["gz"] = gz /\ disk'["plain"] = plain
      BY <2>1, <2>2
    <3>2. get' \in GetType /\ get'.file = file /\ get'.size = size
      BY <2>2, <2>z DEF GetType
    <3> QED BY <3>1, <3>2, <2>z DEF FileSize
  <2>4. out' = NoOut /\ sfpc' = "choose"
    BY <1>1 DEF GetFile
  <2> QED BY <2>3, <2>4, <1>n DEF StaticInv
<1>2. CASE StaticChoose
  <2>1. /\ sfpc = "choose" /\ sfpc' = "open" /\ disk' = disk
        /\ out' = AnswerWith(200, get'.size, 0, 0)
        /\ get' = IF GzBeside THEN Chosen("gz", TRUE, disk.gz) ELSE get
    BY <1>2 DEF StaticChoose
  <2>2. get' \in GetType /\ (out.fault = FALSE => get'.size = FileSize')
    <3>1. CASE GzBeside
      <4>1. disk["gz"] \in Nat
        BY <1>0, <3>1 DEF GzBeside
      <4>2. get' \in GetType /\ get'.file = "gz" /\ get'.size = disk["gz"]
        BY <1>0, <2>1, <3>1, <4>1 DEF Chosen, GetType
      <4> QED BY <2>1, <4>2 DEF FileSize
    <3>2. CASE ~GzBeside
      <4>1. get' = get /\ (out.fault = FALSE => get.size = FileSize)
        BY <2>1, <3>2 DEF StaticInv
      <4> QED BY <1>0, <2>1, <4>1 DEF FileSize
    <3> QED BY <3>1, <3>2
  <2>3. PICK size \in Nat : size = get'.size
    BY <2>2 DEF GetType
  <2>4. out' \in OutType /\ out'.cl = get'.size /\ out'.body = <<>> /\ out'.fault = out.fault
    <3>1. out' = AnswerWith(200, size, 0, 0)
      BY <2>1, <2>3
    <3>2. out' \in OutType /\ out'.cl = size /\ out'.body = <<>> /\ out'.fault = out.fault
      BY <1>0, <3>1 DEF AnswerWith, OutType
    <3> QED BY <2>3, <3>2
  <2> QED BY <1>0, <2>1, <2>2, <2>4 DEF StaticInv
<1>3. CASE StaticOpen \/ StaticOpenFails
  <2>0. out.body = <<>> /\ sfpc = "open"
    <3>1. sfpc = "open"
      BY <1>3 DEF StaticOpen, StaticOpenFails
    <3> QED BY <3>1 DEF StaticInv
  <2>1. CASE StaticOpen
    <3>1. /\ disk[get.file] \in Nat /\ sfpc' = "range" /\ UNCHANGED <<disk, out>>
          /\ get' = Chosen(get.file, FALSE, disk[get.file])
      BY <1>0, <2>1 DEF StaticOpen, GetType
    <3>2. get' \in GetType /\ get'.file = get.file /\ get'.size = disk[get.file]
      BY <1>0, <3>1 DEF Chosen, GetType
    <3>3. out.fault = FALSE => get'.size = get.size
      BY <2>0, <3>2 DEF StaticInv, FileSize
    <3>4. out.fault = FALSE => out.cl = get'.size
      BY <2>0, <3>3 DEF StaticInv
    <3>5. get'.size = FileSize'
      BY <3>1, <3>2 DEF FileSize
    <3> QED BY <1>0, <2>0, <3>1, <3>2, <3>4, <3>5 DEF StaticInv
  <2>2. CASE StaticOpenFails
    <3>1. out' = [out EXCEPT !.status = 500] /\ sfpc' = "error" /\ UNCHANGED <<disk, get>>
      BY <2>2 DEF StaticOpenFails
    <3>2. out' \in OutType /\ out'.body = <<>>
      BY <1>0, <2>0, <3>1 DEF OutType
    <3>3. BodyInOrder'
      BY <3>2 DEF BodyInOrder
    <3> QED BY <1>0, <3>1, <3>2, <3>3 DEF StaticInv
  <2> QED BY <1>3, <2>1, <2>2
<1>4. CASE StaticHeader
  <2> DEFINE cl == IF HasRange THEN RangeLength ELSE out.cl
             st == StatusOf
  <2>1. /\ sfpc = "range" /\ UNCHANGED <<disk, get>> /\ out' = AnswerWith(st, cl, FirstByte, cl)
        /\ sfpc' \in {"error", "close", "sendfile", "seek"}
        /\ (sfpc' = "close" => get.head \/ out'.len <= 0)
        /\ (sfpc' \in {"sendfile", "seek"} => ~(out'.len <= 0))
    BY <1>4 DEF StaticHeader
  <2>2. /\ cl \in Int /\ FirstByte = FirstOf(get) /\ st \in Nat
        /\ (out.fault = FALSE => cl = LengthOf(get))
    <3>1. (out.fault = FALSE => out.cl = get.size) /\ out.cl \in Int
      BY <1>0, <2>1 DEF StaticInv, OutType
    <3>2. st \in Nat
      BY DEF StatusOf
    <3> QED BY <2>1, <3>1, <3>2, Reads DEF LengthOf
  <2>3. LengthOf(get) \in Int /\ FirstOf(get) \in Int
    BY <1>0 DEF GetType, LengthOf, FirstOf
  <2> HIDE DEF cl, st
  <2>4. /\ out' \in OutType /\ out'.cl = cl /\ out'.len = cl /\ out'.offset = FirstOf(get) /\ out'.body = <<>>
        /\ out'.fault = out.fault
    BY <2>1, <2>2, <2>3, <1>0 DEF AnswerWith, OutType
  <2>5. Announced(get, out') /\ Len(out'.body) = 0
    BY <2>2, <2>4 DEF Announced, Body
  <2>6. out'.len >= 0 => Progress(get, out')
    BY <2>2, <2>3, <2>4, <2>5 DEF Progress
  <2>7. ASSUME sfpc' = "close", out'.fault = FALSE, get.head = FALSE, FitsFile(get)
        PROVE  Len(out'.body) = out'.cl
    <3>1. out'.len <= 0
      BY <2>1, <2>7
    <3>2. out'.cl = LengthOf(get)
      BY <2>2, <2>4, <2>7
    <3>3. LengthOf(get) \in Nat
      BY <1>0, <2>7, FitsIn
    <3> QED BY <3>1, <3>2, <3>3, <2>4, <2>5
  <2>8. sfpc' \in {"sendfile", "seek"} => out'.len >= 0
    BY <2>1, <2>2, <2>4
  <2>9. BodyInOrder'
    BY <2>4 DEF BodyInOrder
  <2>10. out'.fault = FALSE => get.size = FileSize'
    <3>1. out.fault = FALSE => get.size = FileSize
      BY <2>1 DEF StaticInv
    <3> QED BY <3>1, <2>1, <2>4 DEF FileSize
  <2> QED BY <1>0, <2>1, <2>4, <2>5, <2>6, <2>7, <2>8, <2>9, <2>10 DEF StaticInv
<1>5. CASE SendFile
  <2>1. PICK n \in 1..Smallest(out.len, FileSize - out.offset) :
          out' = Send(n, 1) /\ sfpc' = IF out.len = n THEN "close" ELSE "sendfile"
    BY <1>5 DEF SendFile
  <2>2. sfpc = "sendfile" /\ UNCHANGED <<disk, get>>
    BY <1>5 DEF SendFile
  <2>3. out' \in OutType /\ Announced(get, out') /\ Progress(get, out') /\ out'.fault = out.fault
    BY <2>1, <2>2, Sends
  <2>4. sfpc' = "close" => Len(out'.body) = out'.cl
    <3>1. sfpc' = "close" => out'.len = 0
      <4>1. out.len \in Int
        BY <1>0 DEF OutType
      <4> QED BY <2>1, <4>1 DEF Send
    <3>2. out'.cl \in Int /\ Len(out'.body) \in Nat
      BY <2>3 DEF OutType
    <3> QED BY <3>1, <3>2, <2>3 DEF Progress
  <2>5. out'.fault = FALSE => get.size = FileSize'
    <3>1. out.fault = FALSE => get.size = FileSize
      BY <2>2 DEF StaticInv
    <3> QED BY <3>1, <2>2, <2>3 DEF FileSize
  <2>6. sfpc' \in {"close", "sendfile"}
    BY <2>1
  <2> QED BY <1>0, <2>2, <2>3, <2>4, <2>5, <2>6 DEF StaticInv
<1>6. CASE SendFileNothing
  <2>1. /\ sfpc = "sendfile" /\ UNCHANGED <<disk, get, out>> /\ sfpc' \in {"seek", "close"}
        /\ (sfpc' = "close" => out.offset >= FileSize)
    BY <1>6 DEF SendFileNothing
  <2>2. sfpc' = "close" /\ out.fault = FALSE /\ FitsFile(get) => Len(out.body) = out.cl
    BY <2>1, EndReached
  <2>3. FileSize' = FileSize
    BY <2>1 DEF FileSize
  <2> QED BY <2>1, <2>2, <2>3 DEF StaticInv
<1>7. CASE SendFileError \/ Seek
  <2>1. sfpc \in {"sendfile", "seek"} /\ UNCHANGED <<disk, get, out>> /\ sfpc' \in {"seek", "read"}
    BY <1>7 DEF SendFileError, Seek
  <2>2. FileSize' = FileSize
    BY <2>1 DEF FileSize
  <2> QED BY <2>1, <2>2 DEF StaticInv
<1>8. CASE SeekFails
  <2>1. /\ sfpc = "seek" /\ UNCHANGED <<disk, get>> /\ out' = [out EXCEPT !.fault = TRUE]
        /\ sfpc' = "error"
    BY <1>8 DEF SeekFails
  <2>2. out' \in OutType /\ out'.body = out.body /\ out'.cl = out.cl /\ out'.fault = TRUE
    BY <1>0, <2>1 DEF OutType
  <2>3. FirstByte' = FirstByte /\ BodyInOrder
    BY <2>1, StaticSafe DEF FirstByte
  <2>4. BodyInOrder'
    BY <2>2, <2>3 DEF BodyInOrder
  <2> QED BY <1>0, <2>1, <2>2, <2>4 DEF StaticInv
<1>9. CASE ReadWrite
  <2>1. PICK n \in 1..Smallest(out.len, FileSize - out.offset) : out' = Send(n, out.loops)
    BY <1>9 DEF ReadWrite
  <2>2. sfpc = "read" /\ UNCHANGED <<disk, get, sfpc>> /\ out.loops \in {0, 1}
    BY <1>0, <1>9 DEF ReadWrite, OutType
  <2>3. out' \in OutType /\ Announced(get, out') /\ Progress(get, out') /\ out'.fault = out.fault
    BY <2>1, <2>2, Sends
  <2>5. out'.fault = FALSE => get.size = FileSize'
    <3>1. out.fault = FALSE => get.size = FileSize
      BY <2>2 DEF StaticInv
    <3> QED BY <3>1, <2>2, <2>3 DEF FileSize
  <2> QED BY <1>0, <2>2, <2>3, <2>5 DEF StaticInv
<1>10. CASE ReadEnds
  <2> DEFINE fault == out.fault \/ (out.len > 0 /\ out.offset < FileSize)
  <2>1. /\ sfpc = "read" /\ UNCHANGED <<disk, get>> /\ out' = [out EXCEPT !.fault = fault]
        /\ sfpc' = "close"
    BY <1>10 DEF ReadEnds
  <2>2. out.len \in Int /\ out.offset \in Int /\ FileSize \in Int /\ out.fault \in BOOLEAN
    <3>1. FileSize \in Int
      BY <1>0 DEF GetType, FileSize
    <3> QED BY <1>0, <3>1 DEF OutType
  <2>3. /\ fault \in BOOLEAN
        /\ (fault = FALSE => out.fault = FALSE /\ (out.len <= 0 \/ out.offset >= FileSize))
    BY <2>2
  <2> HIDE DEF fault
  <2>4. out' \in OutType /\ out'.body = out.body /\ out'.cl = out.cl /\ out'.fault = fault
    BY <1>0, <2>1, <2>3 DEF OutType
  <2>5. fault = FALSE /\ FitsFile(get) => Len(out.body) = out.cl
    BY <2>1, <2>3, EndReached
  <2>6. Announced(get, out')
    <3>1. Announced(get, out)
      BY <2>1 DEF StaticInv
    <3> QED BY <2>3, <2>4, <3>1 DEF Announced
  <2>7. fault = FALSE => get.size = FileSize'
    <3>1. out.fault = FALSE => get.size = FileSize
      BY <2>1 DEF StaticInv
    <3> QED BY <3>1, <2>1, <2>3 DEF FileSize
  <2> QED BY <1>0, <2>1, <2>4, <2>5, <2>6, <2>7 DEF StaticInv
<1>11. CASE StaticDone
  <2>1. sfpc' = "idle" /\ get' = NoGet /\ out' = NoOut /\ disk' = disk
    BY <1>11 DEF StaticDone
  <2> QED BY <1>0, <1>n, <2>1 DEF StaticInv
<1>12. CASE ChangeFile
  <2>1. PICK f \in {"plain", "gz"}, size \in 0..MaxSize : disk' = [disk EXCEPT ![f] = size]
    BY <1>12 DEF ChangeFile
  <2>2. out' = [out EXCEPT !.fault = TRUE] /\ UNCHANGED <<get, sfpc>>
    BY <1>12 DEF ChangeFile
  <2>3. disk' \in [{"plain", "gz"} -> Int]
    BY <1>0, <2>1, StaticFileAssumption
  <2>4. /\ out' \in OutType /\ out'.body = out.body /\ out'.cl = out.cl /\ out'.fault = TRUE
        /\ out'.offset = out.offset /\ out'.len = out.len
    BY <1>0, <2>2 DEF OutType
  <2>5. (Announced(get, out) => Announced(get, out')) /\ (Progress(get, out) => Progress(get, out'))
    BY <2>4 DEF Announced, Progress
  <2>6. FirstByte' = FirstByte
    BY <2>2 DEF FirstByte
  <2>7. BodyInOrder => BodyInOrder'
    BY <2>4, <2>6 DEF BodyInOrder
  <2> QED BY <1>0, <2>2, <2>3, <2>4, <2>5, <2>7 DEF StaticInv
<1>13. CASE UNCHANGED staticVars
  <2>1. (FileSize' = FileSize) /\ (BodyInOrder => BodyInOrder')
    BY <1>13 DEF staticVars, FileSize, BodyInOrder, FirstByte
  <2> QED BY <1>13, <2>1 DEF staticVars, StaticInv
<1> QED BY <1>1, <1>2, <1>3, <1>4, <1>5, <1>6, <1>7, <1>8, <1>9, <1>10, <1>11, <1>12, <1>13
           DEF StaticNext

-----------------------------------------------------------------------------
(* Ssi: texts and tags, and the files that include each other *)

\* A character and the number under which it was read.
Chr == [c : SsiChars, id : Nat]

\* The numbers increase.
Distinct(s) == \A i, j \in 1..Len(s) : i < j => s[i].id < s[j].id

\* The tag that begins at the character m of s is not closed; or no tag is open at the end of s.
TagIsOpen(s, m) == m \in 1..Len(s) /\ BeginsTag(s, m) /\ \A k \in m..Len(s) : s[k].c # ">"

\* Every tag of s is closed.
NoTagIsOpen(s) == \A k \in 1..Len(s) : s[k].c = "<" => \E e \in k..Len(s) : s[e].c = ">"

\* The numbers b are those of the last characters of s.
LastOf(b, s) == Len(b) <= Len(s) /\ \A i \in 1..Len(b) : b[i] = s[Len(s) - Len(b) + i].id

\* One character more.
LEMMA LongerText ==
    ASSUME NEW s \in Seq(Chr), NEW x \in Chr, NEW t, t = Append(s, x)
    PROVE  /\ t \in Seq(Chr) /\ Len(t) = Len(s) + 1 /\ t[Len(s) + 1] = x
           /\ \A i \in 1..Len(s) : t[i] = s[i]
           /\ Len(s) \in Nat /\ \A i \in 1..(Len(s) + 1) : i \in 1..Len(s) \/ i = Len(s) + 1
<1>1. Len(s) \in Nat
  OBVIOUS
<1>2. \A i \in 1..(Len(s) + 1) : i \in 1..Len(s) \/ i = Len(s) + 1
  BY <1>1
<1> QED BY <1>1, <1>2, AppendProperties

\* Tags begin where they began.
LEMMA TagsStay ==
    ASSUME NEW s \in Seq(Chr), NEW x \in Chr, NEW t, t = Append(s, x), NEW m \in 1..Len(s)
    PROVE  BeginsTag(t, m) <=> BeginsTag(s, m)
<1>1. Len(s) \in Nat /\ \A i \in 1..Len(s) : t[i] = s[i]
  BY LongerText
<1>2. \A k \in 1..(m - 1) : k \in 1..Len(s) /\ \A e \in k..(m - 1) : e \in 1..Len(s)
  BY <1>1
<1> QED BY <1>1, <1>2 DEF BeginsTag

\* If one character more closes no SSI tag it is due itself and all others as before.
LEMMA DueOfMore ==
    ASSUME NEW s \in Seq(Chr), NEW x \in Chr, NEW t, t = Append(s, x),
           \A n \in 1..Len(s) : InSsiTag(t, n) => InSsiTag(s, n), ~InSsiTag(t, Len(s) + 1)
    PROVE  Due(t) = Due(s) \cup {x.id}
<1>1. /\ Len(t) = Len(s) + 1 /\ t[Len(s) + 1] = x /\ \A i \in 1..Len(s) : t[i] = s[i]
      /\ Len(s) \in Nat /\ \A i \in 1..(Len(s) + 1) : i \in 1..Len(s) \/ i = Len(s) + 1
  BY LongerText
<1>2. ASSUME NEW n \in 1..Len(s), InSsiTag(s, n) PROVE InSsiTag(t, n)
  <2>1. PICK m \in 1..n : /\ BeginsTag(s, m) /\ \A k \in m..(n - 1) : s[k].c # ">"
                          /\ \E e \in n..Len(s) : s[e].c = ">"
                          /\ s[m + 1].c \in SsiOpeners
    BY <1>2 DEF InSsiTag
  <2>2. PICK e \in n..Len(s) : s[e].c = ">"
    BY <2>1
  <2>3. /\ m \in 1..Len(s) /\ e \in 1..Len(s) /\ e \in n..(Len(s) + 1)
        /\ \A k \in m..(n - 1) : k \in 1..Len(s)
    BY <1>1
  <2>4. e # m
    BY <2>1, <2>2 DEF BeginsTag
  <2>5. m + 1 \in 1..Len(s)
    BY <1>1, <2>3, <2>4
  <2>6. BeginsTag(t, m)
    BY <2>1, <2>3, TagsStay
  <2> QED BY <2>1, <2>2, <2>3, <2>5, <2>6, <1>1 DEF InSsiTag
<1>3. \A n \in 1..Len(s) : n \in 1..(Len(s) + 1)
  BY <1>1
<1>4. Len(s) + 1 \in 1..(Len(s) + 1)
  BY <1>1
<1> QED BY <1>1, <1>2, <1>3, <1>4 DEF Due

\* A character that closes no tag.
LEMMA DueOfOpen ==
    ASSUME NEW s \in Seq(Chr), NEW x \in Chr, NEW t, t = Append(s, x), x.c # ">"
    PROVE  Due(t) = Due(s) \cup {x.id}
<1>1. /\ Len(t) = Len(s) + 1 /\ t[Len(s) + 1] = x /\ \A i \in 1..Len(s) : t[i] = s[i]
      /\ Len(s) \in Nat /\ \A i \in 1..(Len(s) + 1) : i \in 1..Len(s) \/ i = Len(s) + 1
  BY LongerText
<1>2. ASSUME NEW n \in 1..(Len(s) + 1), InSsiTag(t, n) PROVE n \in 1..Len(s) /\ InSsiTag(s, n)
  <2>1. PICK m \in 1..n : /\ BeginsTag(t, m) /\ \A k \in m..(n - 1) : t[k].c # ">"
                          /\ \E e \in n..Len(t) : t[e].c = ">"
                          /\ t[m + 1].c \in SsiOpeners
    BY <1>2 DEF InSsiTag
  <2>2. PICK e \in n..Len(t) : t[e].c = ">"
    BY <2>1
  <2>3. /\ e \in n..Len(s) /\ e \in 1..Len(s) /\ n \in 1..Len(s) /\ m \in 1..Len(s)
        /\ \A k \in m..(n - 1) : k \in 1..Len(s)
    BY <1>1, <2>2
  <2>4. BeginsTag(s, m)
    BY <2>1, <2>3, TagsStay
  <2>5. e # m
    BY <2>1, <2>2 DEF BeginsTag
  <2>6. m + 1 \in 1..Len(s)
    BY <1>1, <2>3, <2>5
  <2> QED BY <2>1, <2>2, <2>3, <2>4, <2>6, <1>1 DEF InSsiTag
<1>3. \A n \in 1..Len(s) : n \in 1..(Len(s) + 1)
  BY <1>1
<1>4. Len(s) + 1 \in 1..(Len(s) + 1) /\ Len(s) + 1 \notin 1..Len(s)
  BY <1>1
<1> QED BY <1>2, <1>3, <1>4, DueOfMore

\* A ">" that closes a tag which is no SSI tag, or none.
LEMMA DueOfClosed ==
    ASSUME NEW s \in Seq(Chr), NEW x \in Chr, NEW t, t = Append(s, x), x.c = ">",
           \A m \in 1..Len(s) : TagIsOpen(s, m) => ~(m < Len(s) /\ s[m + 1].c \in SsiOpeners)
    PROVE  Due(t) = Due(s) \cup {x.id}
<1>1. /\ Len(t) = Len(s) + 1 /\ t[Len(s) + 1] = x /\ \A i \in 1..Len(s) : t[i] = s[i]
      /\ Len(s) \in Nat /\ \A i \in 1..(Len(s) + 1) : i \in 1..Len(s) \/ i = Len(s) + 1
  BY LongerText
<1>2. ASSUME NEW n \in 1..(Len(s) + 1), InSsiTag(t, n) PROVE n \in 1..Len(s) /\ InSsiTag(s, n)
  <2>1. PICK m \in 1..n : /\ BeginsTag(t, m) /\ \A k \in m..(n - 1) : t[k].c # ">"
                          /\ \E e \in n..Len(t) : t[e].c = ">"
                          /\ t[m + 1].c \in SsiOpeners
    BY <1>2 DEF InSsiTag
  <2>2. m \in 1..Len(s)
    <3>1. m # Len(s) + 1
      BY <2>1, <1>1 DEF BeginsTag
    <3> QED BY <3>1, <1>1
  <2>3. BeginsTag(s, m)
    BY <2>1, <2>2, TagsStay
  <2>4. m + 1 \in 1..Len(s)
    <3>1. ">" \notin SsiOpeners
      BY DEF SsiOpeners
    <3>2. m # Len(s)
      BY <2>1, <3>1, <1>1
    <3> QED BY <3>2, <2>2, <1>1
  <2>5. ~TagIsOpen(s, m)
    BY <2>1, <2>2, <2>4, <1>1
  <2>6. PICK e \in m..Len(s) : s[e].c = ">"
    BY <2>2, <2>3, <2>5 DEF TagIsOpen
  <2>7. e \in 1..Len(s)
    BY <2>2, <1>1
  <2>8. e >= n
    BY <2>1, <2>6, <2>7, <1>1
  <2>9. n \in 1..Len(s) /\ e \in n..Len(s) /\ \A k \in m..(n - 1) : k \in 1..Len(s)
    BY <2>2, <2>7, <2>8, <1>1
  <2> QED BY <2>1, <2>3, <2>4, <2>6, <2>9, <1>1 DEF InSsiTag
<1>3. \A n \in 1..Len(s) : n \in 1..(Len(s) + 1)
  BY <1>1
<1>4. Len(s) + 1 \in 1..(Len(s) + 1) /\ Len(s) + 1 \notin 1..Len(s)
  BY <1>1
<1> QED BY <1>2, <1>3, <1>4, DueOfMore

\* At most one tag is open: inside a tag a "<" begins none.
LEMMA OneTagOpen ==
    ASSUME NEW s \in Seq(Chr), NEW m, NEW n, TagIsOpen(s, m), TagIsOpen(s, n)
    PROVE  m = n
<1>1. ASSUME NEW a, NEW b, TagIsOpen(s, a), TagIsOpen(s, b) PROVE ~(a < b)
  <2> SUFFICES ASSUME a < b PROVE FALSE
    OBVIOUS
  <2>1. a \in 1..Len(s) /\ b \in 1..Len(s) /\ Len(s) \in Nat
    BY <1>1 DEF TagIsOpen
  <2>2. a \in 1..(b - 1) /\ s[a].c = "<"
    BY <1>1, <2>1 DEF TagIsOpen, BeginsTag
  <2>3. PICK e \in a..(b - 1) : s[e].c = ">"
    BY <1>1, <2>2 DEF TagIsOpen, BeginsTag
  <2>4. e \in a..Len(s)
    BY <2>1
  <2> QED BY <2>3, <2>4, <1>1 DEF TagIsOpen
<1>2. m \in Nat /\ n \in Nat
  BY DEF TagIsOpen
<1>3. ~(m < n) /\ ~(n < m)
  BY <1>1
<1> QED BY <1>2, <1>3

\* A ">" that closes an SSI tag.
LEMMA DueOfSsiTag ==
    ASSUME NEW s \in Seq(Chr), NEW x \in Chr, NEW t, t = Append(s, x), x.c = ">", Distinct(t),
           NEW m, TagIsOpen(s, m), m < Len(s), s[m + 1].c \in SsiOpeners
    PROVE  Due(t) = Due(s) \ {s[i].id : i \in m..Len(s)}
<1>1. /\ Len(t) = Len(s) + 1 /\ t[Len(s) + 1] = x /\ \A i \in 1..Len(s) : t[i] = s[i]
      /\ Len(s) \in Nat /\ \A i \in 1..(Len(s) + 1) : i \in 1..Len(s) \/ i = Len(s) + 1
  BY LongerText
<1>2. m \in 1..Len(s) /\ BeginsTag(s, m) /\ \A k \in m..Len(s) : s[k].c # ">"
  BY DEF TagIsOpen
<1>3. ASSUME NEW n \in m..(Len(s) + 1) PROVE InSsiTag(t, n)
  <2>1. m \in 1..n /\ BeginsTag(t, m)
    <3>1. m \in 1..n
      BY <1>1, <1>2
    <3> QED BY <3>1, <1>2, TagsStay
  <2>2. \A k \in m..(n - 1) : k \in m..Len(s) /\ k \in 1..Len(s)
    BY <1>1, <1>2
  <2>3. Len(s) + 1 \in n..Len(t) /\ m + 1 \in 1..Len(s)
    BY <1>1, <1>2
  <2> QED BY <2>1, <2>2, <2>3, <1>1, <1>2 DEF InSsiTag
<1>4. ASSUME NEW n \in 1..(m - 1) PROVE InSsiTag(t, n) <=> InSsiTag(s, n)
  <2>1. ASSUME InSsiTag(t, n) PROVE InSsiTag(s, n)
    <3>1. PICK a \in 1..n : /\ BeginsTag(t, a) /\ \A k \in a..(n - 1) : t[k].c # ">"
                            /\ \E e \in n..Len(t) : t[e].c = ">"
                            /\ t[a + 1].c \in SsiOpeners
      BY <2>1 DEF InSsiTag
    <3>2. /\ a \in 1..Len(s) /\ a \in 1..(m - 1) /\ a + 1 \in 1..Len(s)
          /\ \A k \in a..(n - 1) : k \in 1..Len(s)
      BY <1>1, <1>2
    <3>3. BeginsTag(s, a)
      BY <3>1, <3>2, TagsStay
    <3>4. PICK e \in a..(m - 1) : s[e].c = ">"
      BY <1>2, <3>2, <3>3 DEF BeginsTag
    <3>5. e \in 1..Len(s)
      BY <1>1, <1>2, <3>2
    <3>6. e >= n
      BY <3>1, <3>4, <3>5, <1>1
    <3>7. e \in n..Len(s)
      BY <3>5, <3>6, <1>1
    <3> QED BY <3>1, <3>2, <3>3, <3>4, <3>7, <1>1 DEF InSsiTag
  <2>2. ASSUME InSsiTag(s, n) PROVE InSsiTag(t, n)
    <3>1. PICK a \in 1..n : /\ BeginsTag(s, a) /\ \A k \in a..(n - 1) : s[k].c # ">"
                            /\ \E e \in n..Len(s) : s[e].c = ">"
                            /\ s[a + 1].c \in SsiOpeners
      BY <2>2 DEF InSsiTag
    <3>2. PICK e \in n..Len(s) : s[e].c = ">"
      BY <3>1
    <3>3. /\ a \in 1..Len(s) /\ a + 1 \in 1..Len(s) /\ e \in n..Len(t) /\ e \in 1..Len(s)
          /\ \A k \in a..(n - 1) : k \in 1..Len(s)
      BY <1>1, <1>2
    <3>4. BeginsTag(t, a)
      BY <3>1, <3>3, TagsStay
    <3> QED BY <3>1, <3>2, <3>3, <3>4, <1>1 DEF InSsiTag
  <2> QED BY <2>1, <2>2
<1>5. ASSUME NEW n \in m..Len(s) PROVE ~InSsiTag(s, n)
  <2> SUFFICES ASSUME InSsiTag(s, n) PROVE FALSE
    OBVIOUS
  <2>1. PICK e \in n..Len(s) : s[e].c = ">"
    BY DEF InSsiTag
  <2>2. e \in m..Len(s)
    BY <1>1, <1>2
  <2> QED BY <2>1, <2>2, <1>2
<1>6. \A i \in 1..(Len(s) + 1) : i \in 1..(m - 1) \/ i \in m..(Len(s) + 1)
  BY <1>1, <1>2
<1>7. \A i \in 1..(m - 1) : i \in 1..Len(s) /\ i \in 1..(Len(s) + 1) /\ t[i] = s[i]
  BY <1>1, <1>2
<1>8. \A i \in 1..Len(s) : i \in 1..(m - 1) \/ i \in m..Len(s)
  BY <1>1, <1>2
<1>9. \A i \in 1..(m - 1), j \in m..Len(s) : s[i].id # s[j].id
  <2> TAKE i \in 1..(m - 1), j \in m..Len(s)
  <2>1. i \in 1..Len(t) /\ j \in 1..Len(t) /\ i < j /\ i \in 1..Len(s) /\ j \in 1..Len(s)
    BY <1>1, <1>2
  <2>2. t[i].id < t[j].id
    BY <2>1 DEF Distinct
  <2>3. s[i].id \in Nat /\ s[j].id \in Nat
    <3>1. s[i] \in Chr /\ s[j] \in Chr
      BY <2>1
    <3> QED BY <3>1 DEF Chr
  <2> QED BY <2>1, <2>2, <2>3, <1>1
<1>10. \A i \in m..Len(s) : i \in m..(Len(s) + 1)
  BY <1>1, <1>2
<1> DEFINE M == {s[i].id : i \in 1..(m - 1)}
<1>11. Due(t) = {s[i].id : i \in {j \in 1..(m - 1) : ~InSsiTag(s, j)}}
  BY <1>1, <1>3, <1>4, <1>6, <1>7 DEF Due
<1>12. Due(s) = {s[i].id : i \in {j \in 1..(m - 1) : ~InSsiTag(s, j)}} \cup {s[i].id : i \in m..Len(s)}
  <2>1. \A i \in m..Len(s) : i \in 1..Len(s)
    BY <1>2
  <2> QED BY <2>1, <1>5, <1>7, <1>8 DEF Due
<1> QED BY <1>9, <1>11, <1>12

-----------------------------------------------------------------------------

\* All numbers are at most r,
UpTo(s, r) == \A i \in 1..Len(s) : s[i].id <= r

\* and smaller than y.
Below(s, y) == \A i \in 1..Len(s) : s[i].id < y

\* What is known of the text s of a file with the buffer b:
Buffered(b, s) == Distinct(s) /\ LastOf(b, s) /\ ToSet(b) \subseteq Due(s)

\* outside tags,
Outside(b, s) == Buffered(b, s) /\ NoTagIsOpen(s)

\* in a tag,
InTag(b, s) == Buffered(b, s) /\ TagIsOpen(s, Len(s) - Len(b) + 1)

\* and that the tag is an SSI tag.
SsiBegun(b, s) == Len(b) > 1 /\ s[Len(s) - Len(b) + 2].c \in SsiOpeners

\* t is s with one character more.
LongerBy(t, s, x) ==
    /\ t \in Seq(Chr) /\ Len(t) = Len(s) + 1 /\ t[Len(s) + 1] = x
    /\ \A i \in 1..Len(s) : t[i] = s[i]

\* The next character has the next number.
LEMMA NextNumber ==
    ASSUME NEW s \in Seq(Chr), NEW x \in Chr, Below(s, x.id), Distinct(s), NEW t, t = Append(s, x)
    PROVE  Distinct(t) /\ UpTo(t, x.id) /\ LongerBy(t, s, x)
<1>3. /\ t \in Seq(Chr) /\ Len(t) = Len(s) + 1 /\ t[Len(s) + 1] = x /\ \A i \in 1..Len(s) : t[i] = s[i]
      /\ Len(s) \in Nat /\ \A i \in 1..(Len(s) + 1) : i \in 1..Len(s) \/ i = Len(s) + 1
  BY LongerText
<1>4. \A i \in 1..Len(s) : s[i].id \in Nat
  <2> TAKE i \in 1..Len(s)
  <2>1. s[i] \in Chr
    OBVIOUS
  <2> QED BY <2>1 DEF Chr
<1>5. UpTo(t, x.id)
  <2> SUFFICES ASSUME NEW i \in 1..(Len(s) + 1) PROVE t[i].id <= x.id
    BY <1>3 DEF UpTo, Below
  <2>1. CASE i = Len(s) + 1
    <3>1. t[i] = x /\ x.id \in Nat
      BY <2>1, <1>3 DEF Chr
    <3> QED BY <3>1
  <2>2. CASE i \in 1..Len(s)
    <3>x. x.id \in Nat
      BY DEF Chr
    <3>1. t[i].id = s[i].id /\ s[i].id \in Nat /\ s[i].id < x.id
      BY <2>2, <1>3, <1>4 DEF UpTo, Below
    <3> QED BY <3>1, <3>x
  <2> QED BY <2>1, <2>2, <1>3
<1>6. Distinct(t)
  <2> SUFFICES ASSUME NEW i \in 1..(Len(s) + 1), NEW j \in 1..(Len(s) + 1), i < j
               PROVE  t[i].id < t[j].id
    BY <1>3 DEF Distinct
  <2>1. i \in 1..Len(s)
    BY <1>3
  <2>2. t[i].id = s[i].id /\ s[i].id \in Nat /\ s[i].id < x.id
    BY <2>1, <1>3, <1>4 DEF UpTo, Below
  <2>3. CASE j = Len(s) + 1
    BY <2>2, <2>3, <1>3
  <2>4. CASE j \in 1..Len(s)
    BY <2>1, <2>4, <1>3 DEF Distinct
  <2> QED BY <2>3, <2>4, <1>3
<1> QED BY <1>3, <1>5, <1>6 DEF LongerBy

\* One number more in the buffer.
LEMMA AppendedSet ==
    ASSUME NEW b \in Seq(Nat), NEW y \in Nat
    PROVE  /\ Append(b, y) \in Seq(Nat) /\ Len(Append(b, y)) = Len(b) + 1 /\ Len(b) \in Nat
           /\ Append(b, y)[Len(b) + 1] = y /\ \A i \in 1..Len(b) : Append(b, y)[i] = b[i]
           /\ ToSet(Append(b, y)) = ToSet(b) \cup {y}
<1> DEFINE q == Append(b, y)
<1>1. /\ q \in Seq(Nat) /\ Len(q) = Len(b) + 1 /\ Len(b) \in Nat /\ q[Len(b) + 1] = y
      /\ DOMAIN q = 1..(Len(b) + 1) /\ DOMAIN b = 1..Len(b) /\ \A i \in 1..Len(b) : q[i] = b[i]
  BY AppendProperties
<1>2. \A i \in 1..(Len(b) + 1) : i \in 1..Len(b) \/ i = Len(b) + 1
  BY <1>1
<1>3. Len(b) + 1 \in 1..(Len(b) + 1) /\ \A i \in 1..Len(b) : i \in 1..(Len(b) + 1)
  BY <1>1
<1> HIDE DEF q
<1>4. ToSet(q) = ToSet(b) \cup {y}
  BY <1>1, <1>2, <1>3 DEF ToSet
<1> QED BY <1>1, <1>4 DEF q

\* Nothing is in the buffer.
LEMMA EmptyBuffer == ASSUME NEW s PROVE ToSet(<<>>) = {} /\ (Len(s) \in Nat => LastOf(<<>>, s))
BY DEF ToSet, LastOf

\* The buffer goes on with the character that was read.
LEMMA LastOfMore ==
    ASSUME NEW s \in Seq(Chr), NEW b \in Seq(Nat), LastOf(b, s), NEW t \in Seq(Chr),
           Len(t) = Len(s) + 1,
           NEW y \in Nat, t[Len(s) + 1].id = y, \A i \in 1..Len(s) : t[i] = s[i]
    PROVE  LastOf(Append(b, y), t)
<1> DEFINE q == Append(b, y)
<1>1. Len(q) = Len(b) + 1 /\ Len(b) \in Nat /\ q[Len(b) + 1] = y /\ \A i \in 1..Len(b) : q[i] = b[i]
  BY AppendedSet
<1>2. Len(s) \in Nat /\ Len(b) <= Len(s)
  BY DEF LastOf
<1> HIDE DEF q
<1>3. ASSUME NEW i \in 1..(Len(b) + 1) PROVE q[i] = t[Len(t) - Len(q) + i].id
  <2>1. Len(t) - Len(q) = Len(s) - Len(b)
    BY <1>1, <1>2
  <2>2. CASE i = Len(b) + 1
    <3>1. Len(s) - Len(b) + i = Len(s) + 1
      BY <2>2, <1>1, <1>2
    <3> QED BY <2>1, <2>2, <3>1, <1>1
  <2>3. CASE i # Len(b) + 1
    <3>1. i \in 1..Len(b) /\ Len(s) - Len(b) + i \in 1..Len(s)
      BY <2>3, <1>1, <1>2
    <3> QED BY <2>1, <3>1, <1>1 DEF LastOf
  <2> QED BY <2>2, <2>3
<1>4. Len(q) <= Len(t)
  BY <1>1, <1>2
<1> QED BY <1>1, <1>3, <1>4 DEF LastOf, q

\* A "<" outside a tag: the buffer was sent, and the tag begins in it (send_ssi_file).
LEMMA MatchTagOpens ==
    ASSUME NEW s \in Seq(Chr), NEW x \in Chr, Below(s, x.id), NEW b, Outside(b, s),
           x.c = "<", NEW t, t = Append(s, x)
    PROVE  /\ InTag(<<x.id>>, t) /\ ~SsiBegun(<<x.id>>, t) /\ UpTo(t, x.id) /\ t \in Seq(Chr)
           /\ Due(t) = Due(s) \cup {x.id}
<1>0. "<" \in SsiChars /\ "<" # ">" /\ Len(s) \in Nat /\ Distinct(s) /\ NoTagIsOpen(s)
  BY DEF SsiChars, Outside, Buffered
<1>1. /\ Distinct(t) /\ UpTo(t, x.id) /\ t \in Seq(Chr) /\ Len(t) = Len(s) + 1
      /\ t[Len(s) + 1] = x
      /\ \A i \in 1..Len(s) : t[i] = s[i]
  <2>1. Distinct(t) /\ UpTo(t, x.id) /\ LongerBy(t, s, x)
    BY <1>0, NextNumber
  <2> QED BY <2>1 DEF LongerBy
<1>2. Due(t) = Due(s) \cup {x.id}
  BY <1>0, <1>1, DueOfOpen
<1>3. LastOf(<<x.id>>, t) /\ Len(<<x.id>>) = 1 /\ ToSet(<<x.id>>) = {x.id}
  <2>1. Len(t) - 1 + 1 = Len(s) + 1 /\ Len(t) >= 1
    BY <1>0, <1>1
  <2> QED BY <2>1, <1>1 DEF LastOf, ToSet
<1>4. TagIsOpen(t, Len(s) + 1)
  <2>1. Len(s) + 1 \in 1..Len(t) /\ (Len(s) + 1) - 1 = Len(s)
    BY <1>0, <1>1
  <2>2. \A k \in (Len(s) + 1)..Len(t) : k = Len(s) + 1
    BY <1>0, <1>1
  <2>3. \A k \in 1..Len(s) : t[k].c = "<" => \E e \in k..Len(s) : t[e].c = ">"
    <3>1. \A k \in 1..Len(s) : \A e \in k..Len(s) : e \in 1..Len(s)
      BY <1>0
    <3> QED BY <3>1, <1>0, <1>1 DEF NoTagIsOpen
  <2> QED BY <2>1, <2>2, <2>3, <1>0, <1>1 DEF TagIsOpen, BeginsTag
<1>5. Len(t) - 1 + 1 = Len(s) + 1
  BY <1>0, <1>1
<1> QED BY <1>1, <1>2, <1>3, <1>4, <1>5 DEF Outside, InTag, Buffered, SsiBegun

\* Any other character outside a tag goes to the buffer, or is sent with it when it is full.
LEMMA MatchText ==
    ASSUME NEW s \in Seq(Chr), NEW x \in Chr, Below(s, x.id), NEW b \in Seq(Nat), Outside(b, s),
           x.c # "<", NEW t, t = Append(s, x)
    PROVE  /\ Outside(<<>>, t) /\ Outside(Append(b, x.id), t)
           /\ UpTo(t, x.id) /\ t \in Seq(Chr) /\ Due(t) = Due(s) \cup {x.id}
<1>0. Len(s) \in Nat /\ Distinct(s) /\ NoTagIsOpen(s) /\ LastOf(b, s) /\ ToSet(b) \subseteq Due(s)
  BY DEF Outside, InTag, Buffered, SsiBegun
<1>1. /\ Distinct(t) /\ UpTo(t, x.id) /\ t \in Seq(Chr) /\ Len(t) = Len(s) + 1
      /\ t[Len(s) + 1] = x
      /\ \A i \in 1..Len(s) : t[i] = s[i]
  <2>1. Distinct(t) /\ UpTo(t, x.id) /\ LongerBy(t, s, x)
    BY <1>0, NextNumber
  <2> QED BY <2>1 DEF LongerBy
<1>n. \A m \in 1..Len(s) : ~TagIsOpen(s, m)
  BY <1>0 DEF NoTagIsOpen, TagIsOpen, BeginsTag
<1>2. Due(t) = Due(s) \cup {x.id}
  <2>1. CASE x.c # ">"
    BY <2>1, DueOfOpen
  <2>2. CASE x.c = ">"
    BY <2>2, <1>n, DueOfClosed
  <2> QED BY <2>1, <2>2
<1>3. NoTagIsOpen(t)
  <2> SUFFICES ASSUME NEW k \in 1..(Len(s) + 1), t[k].c = "<"
               PROVE  \E e \in k..(Len(s) + 1) : t[e].c = ">"
    BY <1>1 DEF NoTagIsOpen
  <2>1. k \in 1..Len(s)
    <3>1. k # Len(s) + 1
      BY <1>1
    <3> QED BY <3>1, <1>0
  <2>2. PICK e \in k..Len(s) : s[e].c = ">"
    BY <2>1, <1>0, <1>1 DEF NoTagIsOpen
  <2>3. e \in 1..Len(s) /\ e \in k..(Len(s) + 1)
    BY <2>1, <1>0
  <2> QED BY <2>2, <2>3, <1>1
<1>4. LastOf(Append(b, x.id), t) /\ ToSet(Append(b, x.id)) = ToSet(b) \cup {x.id}
  <2>1. x.id \in Nat
    BY DEF Chr
  <2> QED BY <2>1, <1>0, <1>1, LastOfMore, AppendedSet
<1>5. LastOf(<<>>, t) /\ ToSet(<<>>) = {}
  BY <1>0, <1>1, EmptyBuffer
<1> QED BY <1>0, <1>1, <1>2, <1>3, <1>4, <1>5 DEF Outside, InTag, Buffered, SsiBegun

\* The tag that is open begins where the buffer begins.
LEMMA TagBegins ==
    ASSUME NEW s \in Seq(Chr), NEW b \in Seq(Nat), InTag(b, s), NEW m, m = Len(s) - Len(b) + 1
    PROVE  /\ m \in 1..Len(s) /\ Len(b) \in Nat \ {0} /\ Len(s) \in Nat /\ TagIsOpen(s, m)
           /\ Len(s) - Len(b) + 2 = m + 1 /\ (m < Len(s) <=> Len(b) > 1)
           /\ SsiBegun(b, s) <=> Len(b) > 1 /\ s[m + 1].c \in SsiOpeners
<1>1. Len(s) \in Nat /\ Len(b) \in Nat /\ TagIsOpen(s, m)
  BY DEF Outside, InTag, Buffered, SsiBegun
<1>2. m \in 1..Len(s)
  BY <1>1 DEF TagIsOpen
<1>3. Len(b) # 0 /\ Len(s) - Len(b) + 2 = m + 1 /\ (m < Len(s) <=> Len(b) > 1)
  BY <1>1, <1>2
<1> QED BY <1>1, <1>2, <1>3 DEF Outside, InTag, Buffered, SsiBegun

\* A character in a tag; the second one says whether it is an SSI tag.
LEMMA MatchTagChar ==
    ASSUME NEW s \in Seq(Chr), NEW x \in Chr, Below(s, x.id), NEW b \in Seq(Nat), InTag(b, s),
           x.c # ">", NEW t, t = Append(s, x)
    PROVE  /\ InTag(Append(b, x.id), t)
           /\ SsiBegun(Append(b, x.id), t) <=> (SsiBegun(b, s) \/ (Len(b) = 1 /\ x.c \in SsiOpeners))
           /\ UpTo(t, x.id) /\ t \in Seq(Chr) /\ Due(t) = Due(s) \cup {x.id}
<1>0. Len(s) \in Nat /\ Distinct(s) /\ LastOf(b, s) /\ ToSet(b) \subseteq Due(s)
  BY DEF Outside, InTag, Buffered, SsiBegun
<1>1. /\ Distinct(t) /\ UpTo(t, x.id) /\ t \in Seq(Chr) /\ Len(t) = Len(s) + 1
      /\ t[Len(s) + 1] = x
      /\ \A i \in 1..Len(s) : t[i] = s[i]
  <2>1. Distinct(t) /\ UpTo(t, x.id) /\ LongerBy(t, s, x)
    BY <1>0, NextNumber
  <2> QED BY <2>1 DEF LongerBy
<1>2. Due(t) = Due(s) \cup {x.id}
  BY <1>0, <1>1, DueOfOpen
<1>3. PICK m : m = Len(s) - Len(b) + 1
  OBVIOUS
<1>4. /\ m \in 1..Len(s) /\ Len(b) \in Nat \ {0} /\ TagIsOpen(s, m)
      /\ (m < Len(s) <=> Len(b) > 1) /\ (SsiBegun(b, s) <=> Len(b) > 1 /\ s[m + 1].c \in SsiOpeners)
  BY <1>3, TagBegins
<1>5. TagIsOpen(t, m)
  <2>1. /\ m \in 1..Len(t)
        /\ \A k \in m..Len(t) : k = Len(s) + 1 \/ (k \in m..Len(s) /\ k \in 1..Len(s))
    <3>1. Len(s) \in Nat /\ Len(t) = Len(s) + 1 /\ m \in 1..Len(s)
      BY <1>0, <1>1, <1>4
    <3> QED BY ONLY <3>1
  <2>2. BeginsTag(t, m)
    BY <1>1, <1>4, TagsStay DEF TagIsOpen
  <2> QED BY <2>1, <2>2, <1>1, <1>4 DEF TagIsOpen
<1>6. /\ LastOf(Append(b, x.id), t) /\ ToSet(Append(b, x.id)) = ToSet(b) \cup {x.id}
      /\ Len(Append(b, x.id)) = Len(b) + 1
  <2>1. x.id \in Nat
    BY DEF Chr
  <2> QED BY <2>1, <1>0, <1>1, LastOfMore, AppendedSet
<1>7. Len(t) - (Len(b) + 1) + 1 = m /\ Len(t) - (Len(b) + 1) + 2 = m + 1 /\ Len(b) + 1 > 1
  BY <1>0, <1>1, <1>3, <1>4
<1>8. t[m + 1].c \in SsiOpeners <=> (SsiBegun(b, s) \/ (Len(b) = 1 /\ x.c \in SsiOpeners))
  <2>1. CASE Len(b) = 1
    <3>1. m = Len(s) /\ ~SsiBegun(b, s)
      BY <2>1, <1>0, <1>3, <1>4
    <3> QED BY <2>1, <3>1, <1>1
  <2>2. CASE Len(b) # 1
    <3>1. Len(b) > 1 /\ m + 1 \in 1..Len(s)
      <4>1. Len(b) > 1
        <5>1. \A l \in Nat \ {0} : l # 1 => l > 1
          OBVIOUS
        <5>2. Len(b) \in Nat \ {0}
          BY <1>4
        <5> QED BY ONLY <5>1, <5>2, <2>2
      <4> QED BY <4>1, <1>0, <1>4
    <3> QED BY <2>2, <3>1, <1>1, <1>4
  <2> QED BY <2>1, <2>2
<1> QED BY <1>0, <1>1, <1>2, <1>5, <1>6, <1>7, <1>8 DEF Outside, InTag, Buffered, SsiBegun

\* A ">" closes the tag: an SSI tag is taken from what is due, another one is sent.
LEMMA MatchTagCloses ==
    ASSUME NEW s \in Seq(Chr), NEW x \in Chr, Below(s, x.id), NEW b \in Seq(Nat), InTag(b, s),
           x.c = ">", NEW t, t = Append(s, x)
    PROVE  /\ Outside(<<>>, t) /\ UpTo(t, x.id) /\ t \in Seq(Chr)
           /\ Due(t) = IF SsiBegun(b, s) THEN Due(s) \ ToSet(b) ELSE Due(s) \cup {x.id}
<1>0. Len(s) \in Nat /\ Distinct(s) /\ LastOf(b, s) /\ ToSet(b) \subseteq Due(s) /\ ">" \in SsiChars
  BY DEF Outside, InTag, Buffered, SsiBegun, SsiChars
<1>1. /\ Distinct(t) /\ UpTo(t, x.id) /\ t \in Seq(Chr) /\ Len(t) = Len(s) + 1
      /\ t[Len(s) + 1] = x
      /\ \A i \in 1..Len(s) : t[i] = s[i]
  <2>1. Distinct(t) /\ UpTo(t, x.id) /\ LongerBy(t, s, x)
    BY <1>0, NextNumber
  <2> QED BY <2>1 DEF LongerBy
<1>3. PICK m : m = Len(s) - Len(b) + 1
  OBVIOUS
<1>4. /\ m \in 1..Len(s) /\ Len(b) \in Nat \ {0} /\ TagIsOpen(s, m)
      /\ (m < Len(s) <=> Len(b) > 1) /\ (SsiBegun(b, s) <=> Len(b) > 1 /\ s[m + 1].c \in SsiOpeners)
  BY <1>3, TagBegins
<1>5. NoTagIsOpen(t)
  <2>1. \A k \in 1..Len(t) : Len(s) + 1 \in k..Len(t)
    BY <1>0, <1>1
  <2> QED BY <2>1, <1>1 DEF NoTagIsOpen
<1>6. LastOf(<<>>, t) /\ ToSet(<<>>) = {}
  BY <1>0, <1>1, EmptyBuffer
<1>7. CASE SsiBegun(b, s)
  <2>1. Due(t) = Due(s) \ {s[i].id : i \in m..Len(s)}
    BY <1>1, <1>4, <1>7, DueOfSsiTag
  <2>2. {s[i].id : i \in m..Len(s)} = ToSet(b)
    <3>1. \A i \in 1..Len(b) : b[i] = s[(m - 1) + i].id
      <4>1. Len(s) - Len(b) = m - 1
        BY <1>0, <1>3, <1>4
      <4> QED BY <4>1, <1>0 DEF LastOf
    <3>2. \A i \in 1..Len(b) : (m - 1) + i \in m..Len(s)
      BY <1>0, <1>3, <1>4
    <3>3. \A i \in m..Len(s) : i - (m - 1) \in 1..Len(b) /\ (m - 1) + (i - (m - 1)) = i
      BY <1>0, <1>3, <1>4
    <3>4. DOMAIN b = 1..Len(b)
      OBVIOUS
    <3>5. \A i \in m..Len(s) : \E j \in 1..Len(b) : s[i].id = b[j]
      BY <3>1, <3>3
    <3> QED BY <3>1, <3>2, <3>4, <3>5 DEF ToSet
  <2> QED BY <2>1, <2>2, <1>1, <1>5, <1>6, <1>7 DEF Outside, InTag, Buffered, SsiBegun
<1>8. CASE ~SsiBegun(b, s)
  <2>1. \A n \in 1..Len(s) : TagIsOpen(s, n) => ~(n < Len(s) /\ s[n + 1].c \in SsiOpeners)
    BY <1>4, <1>8, OneTagOpen
  <2>2. Due(t) = Due(s) \cup {x.id}
    BY <2>1, <1>1, DueOfClosed
  <2> QED BY <2>2, <1>1, <1>5, <1>6, <1>8 DEF Outside, InTag, Buffered, SsiBegun
<1> QED BY <1>7, <1>8

-----------------------------------------------------------------------------

\* The numbers increase.
Increasing(s) == \A i, j \in 1..Len(s) : i < j => s[i] < s[j]

\* What was sent; due are the characters of files that are finished, old those of the
\* files around the innermost one, new those of that one, and b is in the buffer.
Sent(sent, due, old, b, new, r) ==
    /\ sent \in Seq(Nat) /\ Increasing(sent) /\ ToSet(sent) \subseteq 0..r
    /\ due \subseteq 0..r /\ old \subseteq 0..r /\ new \subseteq 0..r
    /\ b \in Seq(Nat) /\ Increasing(b) /\ ToSet(b) \subseteq new
    /\ ToSet(sent) \cup ToSet(b) = due \cup old \cup new
    /\ \A d \in ToSet(sent) \cup due \cup old : \A y \in ToSet(b) : d < y

\* The numbers of a sequence.
LEMMA SetOf ==
    ASSUME NEW s \in Seq(Nat)
    PROVE  (\A i \in 1..Len(s) : s[i] \in ToSet(s) /\ s[i] \in Nat) /\ ToSet(s) \subseteq Nat
BY DEF ToSet

\* The empty sequence.
LEMMA EmptyIs == Increasing(<<>>) /\ ToSet(<<>>) = {} /\ <<>> \in Seq(Nat)
BY DEF Increasing, ToSet

\* Two sequences one behind the other, when the second one has the larger numbers.
LEMMA JoinedSet ==
    ASSUME NEW s \in Seq(Nat), NEW t \in Seq(Nat), Increasing(s), Increasing(t),
           \A d \in ToSet(s) : \A y \in ToSet(t) : d < y
    PROVE  s \o t \in Seq(Nat) /\ Increasing(s \o t) /\ ToSet(s \o t) = ToSet(s) \cup ToSet(t)
<1> DEFINE q == s \o t
           m == Len(s)
           n == Len(t)
<1>1. q \in Seq(Nat) /\ Len(q) = m + n
  BY ConcatProperties
<1>2. \A i \in 1..(m + n) : q[i] = IF i <= m THEN s[i] ELSE t[i - m]
  BY ConcatProperties
<1>n. m \in Nat /\ n \in Nat /\ DOMAIN q = 1..Len(q) /\ DOMAIN s = 1..m /\ DOMAIN t = 1..n
  BY <1>1
<1> HIDE DEF q
<1>3. \A i \in 1..m : i \in 1..(m + n) /\ q[i] = s[i]
  BY <1>2, <1>n
<1>4. \A i \in 1..n : m + i \in 1..(m + n) /\ q[m + i] = t[i]
  <2> TAKE i \in 1..n
  <2>1. m + i \in 1..(m + n) /\ ~(m + i <= m) /\ (m + i) - m = i
    BY <1>n
  <2> QED BY <2>1, <1>2
<1>5. \A i \in 1..(m + n) : i \in 1..m \/ (i - m \in 1..n /\ m + (i - m) = i)
  BY <1>n
<1>6. ToSet(q) = ToSet(s) \cup ToSet(t)
  <2>1. ASSUME NEW i \in 1..(m + n) PROVE q[i] \in ToSet(s) \cup ToSet(t)
    <3>1. CASE i \in 1..m
      BY <3>1, <1>3, SetOf
    <3>2. CASE i - m \in 1..n /\ m + (i - m) = i
      BY <3>2, <1>4, SetOf
    <3> QED BY <3>1, <3>2, <1>5
  <2>2. \A i \in 1..m : s[i] \in ToSet(q)
    BY <1>1, <1>3, <1>n DEF ToSet
  <2>3. \A i \in 1..n : t[i] \in ToSet(q)
    BY <1>1, <1>4, <1>n DEF ToSet
  <2> QED BY <2>1, <2>2, <2>3, <1>1, <1>n DEF ToSet
<1>7. Increasing(q)
  <2> SUFFICES ASSUME NEW i \in 1..(m + n), NEW j \in 1..(m + n), i < j PROVE q[i] < q[j]
    BY <1>1 DEF Increasing
  <2>1. CASE j \in 1..m
    <3>1. i \in 1..m
      BY <2>1, <1>n
    <3> QED BY <2>1, <3>1, <1>3 DEF Increasing
  <2>2. CASE j - m \in 1..n /\ m + (j - m) = j
    <3>1. CASE i \in 1..m
      <4>1. q[i] \in ToSet(s) /\ q[j] \in ToSet(t)
        BY <2>2, <3>1, <1>3, <1>4, SetOf
      <4> QED BY <4>1
    <3>2. CASE i - m \in 1..n /\ m + (i - m) = i
      <4>1. i - m < j - m
        BY <1>n
      <4>2. t[i - m] < t[j - m]
        BY <2>2, <3>2, <4>1 DEF Increasing
      <4> QED BY <2>2, <3>2, <4>2, <1>4
    <3> QED BY <3>1, <3>2, <1>5
  <2> QED BY <2>1, <2>2, <1>5
<1> QED BY <1>1, <1>6, <1>7 DEF q

\* A larger number at the end.
LEMMA AppendedSorted ==
    ASSUME NEW b \in Seq(Nat), Increasing(b), NEW y \in Nat, \A d \in ToSet(b) : d < y
    PROVE  Increasing(Append(b, y))
<1> DEFINE q == Append(b, y)
<1>1. Len(q) = Len(b) + 1 /\ Len(b) \in Nat /\ q[Len(b) + 1] = y /\ \A i \in 1..Len(b) : q[i] = b[i]
  BY AppendedSet
<1>2. \A i \in 1..(Len(b) + 1) : i \in 1..Len(b) \/ i = Len(b) + 1
  BY <1>1
<1> HIDE DEF q
<1>3. ASSUME NEW i \in 1..(Len(b) + 1), NEW j \in 1..(Len(b) + 1), i < j PROVE q[i] < q[j]
  <2>1. i \in 1..Len(b)
    BY <1>1, <1>2, <1>3
  <2>2. CASE j \in 1..Len(b)
    BY <2>1, <2>2, <1>1, <1>3 DEF Increasing
  <2>3. CASE j = Len(b) + 1
    BY <2>1, <2>3, <1>1, SetOf
  <2> QED BY <2>2, <2>3, <1>2
<1> QED BY <1>1, <1>3 DEF Increasing, q

\* A character that is due goes to the buffer.
LEMMA SentText ==
    ASSUME NEW sent, NEW due, NEW old, NEW b, NEW new, NEW r \in Nat, Sent(sent, due, old, b, new,
           r)
    PROVE  Sent(sent, due, old, Append(b, r + 1), new \cup {r + 1}, r + 1)
<1>0. /\ r + 1 \in Nat /\ 0..r \subseteq 0..(r + 1) /\ r + 1 \in 0..(r + 1)
      /\ \A d \in 0..r : d < r + 1
  OBVIOUS
<1>1. PICK y \in Nat : y = r + 1
  OBVIOUS
<1>2. b \in Seq(Nat) /\ ToSet(b) \subseteq new /\ new \subseteq 0..r /\ Increasing(b)
  BY DEF Sent
<1>3. /\ Append(b, y) \in Seq(Nat) /\ ToSet(Append(b, y)) = ToSet(b) \cup {y}
      /\ Increasing(Append(b, y))
  <2>1. \A d \in ToSet(b) : d < y
    BY <1>0, <1>1, <1>2
  <2> QED BY <2>1, <1>2, AppendedSet, AppendedSorted
<1>4. Sent(sent, due, old, Append(b, y), new \cup {y}, y)
  BY <1>0, <1>1, <1>3 DEF Sent
<1> QED BY <1>1, <1>4

\* The buffer is sent.
LEMMA SentAll ==
    ASSUME NEW sent, NEW due, NEW old, NEW b, NEW new, NEW r \in Nat, Sent(sent, due, old, b, new,
           r)
    PROVE  Sent(sent \o b, due, old, <<>>, new, r)
<1>1. /\ sent \o b \in Seq(Nat) /\ Increasing(sent \o b)
      /\ ToSet(sent \o b) = ToSet(sent) \cup ToSet(b)
  BY JoinedSet DEF Sent
<1> QED BY <1>1, EmptyIs DEF Sent

\* The buffer is dropped together with what was due of it.
LEMMA SentDrop ==
    ASSUME NEW sent, NEW due, NEW old, NEW b, NEW new, NEW r \in Nat, Sent(sent, due, old, b, new,
           r)
    PROVE  Sent(sent, due, old, <<>>, new \ ToSet(b), r)
<1>1. \A y \in ToSet(b) : y \in Nat /\ y \notin ToSet(sent) \cup due \cup old
  BY SetOf DEF Sent
<1>2. ToSet(sent) = due \cup old \cup (new \ ToSet(b))
  BY <1>1 DEF Sent
<1> QED BY <1>2, EmptyIs DEF Sent

\* A character that is not due is read.
LEMMA SentLater ==
    ASSUME NEW sent, NEW due, NEW old, NEW b, NEW new, NEW r \in Nat, Sent(sent, due, old, b, new,
           r)
    PROVE  Sent(sent, due, old, b, new, r + 1)
<1>1. 0..r \subseteq 0..(r + 1)
  OBVIOUS
<1> QED BY <1>1 DEF Sent

\* Something is sent at once while the buffer is empty.
LEMMA SentData ==
    ASSUME NEW sent, NEW due, NEW old, NEW new, NEW r \in Nat, Sent(sent, due, old, <<>>, new, r)
    PROVE  Sent(Append(sent, r + 1), due \cup {r + 1}, old, <<>>, new, r + 1)
<1>0. /\ r + 1 \in Nat /\ 0..r \subseteq 0..(r + 1) /\ r + 1 \in 0..(r + 1)
      /\ \A d \in 0..r : d < r + 1
  OBVIOUS
<1>1. PICK y \in Nat : y = r + 1
  OBVIOUS
<1>2. sent \in Seq(Nat) /\ ToSet(sent) \subseteq 0..r /\ Increasing(sent)
  BY DEF Sent
<1>3. /\ Append(sent, y) \in Seq(Nat) /\ ToSet(Append(sent, y)) = ToSet(sent) \cup {y}
      /\ Increasing(Append(sent, y))
  <2>1. \A d \in ToSet(sent) : d < y
    BY <1>0, <1>1, <1>2
  <2> QED BY <2>1, <1>2, AppendedSet, AppendedSorted
<1>4. Sent(Append(sent, y), due \cup {y}, old, <<>>, new, y)
  BY <1>0, <1>1, <1>3, EmptyIs DEF Sent
<1> QED BY <1>1, <1>4

\* What was due of one file is accounted to another one, while the buffer is empty.
LEMMA SentMove ==
    ASSUME NEW sent, NEW due, NEW old, NEW new, NEW r \in Nat, Sent(sent, due, old, <<>>, new, r),
           NEW due2, NEW old2, NEW new2, due2 \cup old2 \cup new2 = due \cup old \cup new
    PROVE  Sent(sent, due2, old2, <<>>, new2, r)
BY EmptyIs DEF Sent

-----------------------------------------------------------------------------

\* The files that are being sent.
FileType == [level : Nat, in_tag : BOOLEAN, in_ssi_tag : BOOLEAN, buf : Seq(Nat), text : Seq(Chr)]

\* The two flags of send_ssi_file say what its text s says.
FlagsOk(f, s) ==
    /\ f.in_tag = FALSE => Outside(f.buf, s) /\ f.in_ssi_tag = FALSE
    /\ f.in_tag = TRUE => InTag(f.buf, s) /\ (f.in_ssi_tag = TRUE <=> SsiBegun(f.buf, s))

\* A file of which the characters up to r were read.
FileOk(f, r) == f \in FileType /\ UpTo(f.text, r) /\ FlagsOk(f, f.text)

\* The files that include each other: each is two levels below the one around it, and only the
\* innermost one has something in its buffer, since an SSI tag is read with its buffer emptied.
Stack(files, r) ==
    /\ files \in Seq(FileType)
    /\ \A i \in 1..Len(files) : /\ FileOk(files[i], r)
                                /\ files[i].level = 2 * (i - 1) /\ files[i].level <= SsiMaxLevel
                                /\ i < Len(files) => files[i].buf = <<>>

\* What is due of the files around the innermost one,
OuterDue(files) == UNION {Due(files[i].text) : i \in 1..(Len(files) - 1)}

\* the buffer of the innermost one,
TopBuf(files) == IF files = <<>> THEN <<>> ELSE files[Len(files)].buf

\* and what is due of it.
TopDue(files) == IF files = <<>> THEN {} ELSE Due(files[Len(files)].text)

\* The inductive invariant: what is due is sent, in its order, or in the innermost buffer.
SsiInv ==
    /\ ssiRead \in Nat /\ Stack(ssiFiles, ssiRead)
    /\ ssiPc = "idle" => ssiFiles = <<>>
    /\ Sent(ssiOut, ssiDue, OuterDue(ssiFiles), TopBuf(ssiFiles), TopDue(ssiFiles), ssiRead)

\* A file is as it was when another one was read.
LEMMA FileLater ==
    ASSUME NEW f, NEW r \in Nat, NEW r2 \in Nat, r <= r2, FileOk(f, r)
    PROVE  FileOk(f, r2)
<1>1. \A i \in 1..Len(f.text) : f.text[i].id \in Nat
  <2>1. f.text \in Seq(Chr)
    BY DEF FileOk, FileType
  <2>2. \A i \in 1..Len(f.text) : f.text[i] \in Chr
    BY <2>1
  <2> QED BY <2>2 DEF Chr
<1>2. UpTo(f.text, r2)
  BY <1>1 DEF FileOk, UpTo
<1> QED BY <1>2 DEF FileOk

\* All but the innermost file.
LEMMA FrontIs ==
    ASSUME NEW T, NEW files \in Seq(T), files # <<>>
    PROVE  /\ Front(files) \in Seq(T) /\ Len(Front(files)) = Len(files) - 1 /\ Len(files) \in Nat \ {0}
           /\ \A i \in 1..(Len(files) - 1) : Front(files)[i] = files[i]
<1>1. Len(files) \in Nat \ {0} /\ Len(files) - 1 \in 0..Len(files)
  OBVIOUS
<1>2. PICK n : n = Len(files) - 1
  OBVIOUS
<1>3. Front(files) = SubSeq(files, 1, n) /\ n \in 0..Len(files)
  BY <1>1, <1>2 DEF Front
<1>4. /\ SubSeq(files, 1, n) \in Seq(T) /\ Len(SubSeq(files, 1, n)) = n
      /\ \A i \in 1..n : SubSeq(files, 1, n)[i] = files[i]
  BY <1>3, SubSeqProperties
<1> QED BY <1>1, <1>2, <1>3, <1>4

\* The innermost file has changed.
LEMMA ReplacedTop ==
    ASSUME NEW files, NEW r \in Nat, Stack(files, r), files # <<>>, NEW r2 \in Nat, r <= r2,
           NEW f, FileOk(f, r2), f.level = files[Len(files)].level, NEW g, g = Front(files) \o <<f>>
    PROVE  /\ Stack(g, r2) /\ OuterDue(g) = OuterDue(files) /\ TopBuf(g) = f.buf /\ TopDue(g) = Due(f.text)
           /\ g # <<>> /\ Len(g) = Len(files)
<1>0. /\ files \in Seq(FileType) /\ f \in FileType /\ <<f>> \in Seq(FileType) /\ Len(<<f>>) = 1
      /\ <<f>>[1] = f
  BY DEF Stack, FileOk
<1> DEFINE l == Len(files)
<1>1. /\ Front(files) \in Seq(FileType) /\ Len(Front(files)) = l - 1 /\ l \in Nat \ {0}
      /\ \A i \in 1..(l - 1) : Front(files)[i] = files[i]
  BY <1>0, FrontIs
<1>2. g \in Seq(FileType) /\ Len(g) = l /\ g[l] = f /\ \A i \in 1..(l - 1) : g[i] = files[i]
  <2>1. PICK p : p = Front(files)
    OBVIOUS
  <2>2. PICK q : q = <<f>>
    OBVIOUS
  <2>3. /\ g = p \o q /\ p \in Seq(FileType) /\ q \in Seq(FileType) /\ Len(p) = l - 1
        /\ Len(q) = 1 /\ q[1] = f
    BY <2>1, <2>2, <1>0, <1>1
  <2>4. g \in Seq(FileType) /\ Len(g) = (l - 1) + 1 /\
        \A i \in 1..((l - 1) + 1) : g[i] = IF i <= l - 1 THEN p[i] ELSE q[i - (l - 1)]
    <3>1. /\ p \o q \in Seq(FileType) /\ Len(p \o q) = Len(p) + Len(q)
          /\ \A i \in 1..(Len(p) + Len(q)) : (p \o q)[i] = IF i <= Len(p) THEN p[i] ELSE q[i - Len(p)]
      <4>1. p \in Seq(FileType) /\ q \in Seq(FileType)
        BY <2>3
      <4> QED BY ONLY <4>1, ConcatProperties
    <3>2. g = p \o q /\ Len(p) = l - 1 /\ Len(q) = 1
      BY <2>3
    <3> HIDE DEF l
    <3> QED BY ONLY <3>1, <3>2
  <2>6. (l - 1) + 1 = l /\ l \in 1..l /\ ~(l <= l - 1) /\ l - (l - 1) = 1
    BY <1>1
  <2>7. \A i \in 1..(l - 1) : i \in 1..l /\ i <= l - 1
    BY <1>1
  <2> HIDE DEF l
  <2> QED BY <2>1, <2>3, <2>4, <2>6, <2>7, <1>1
<1>3. g # <<>>
  BY <1>1, <1>2
<1>4. OuterDue(g) = OuterDue(files)
  BY <1>2 DEF OuterDue
<1>5. Stack(g, r2)
  <2> SUFFICES ASSUME NEW i \in 1..l
               PROVE /\ FileOk(g[i], r2) /\ g[i].level = 2 * (i - 1)
                     /\ g[i].level <= SsiMaxLevel /\ (i < l => g[i].buf = <<>>)
    BY <1>2 DEF Stack
  <2>1. CASE i = l
    BY <2>1, <1>1, <1>2 DEF Stack
  <2>2. CASE i # l
    <3>1. i \in 1..(l - 1)
      BY <2>2, <1>1
    <3> QED BY <3>1, <1>2, FileLater DEF Stack
  <2> QED BY <2>1, <2>2
<1> QED BY <1>2, <1>3, <1>4, <1>5 DEF TopBuf, TopDue

\* A file that was opened.
LEMMA NewFileOk ==
    ASSUME NEW level \in Nat, NEW r \in Nat
    PROVE  /\ FileOk(NewFile(level), r) /\ NewFile(level).buf = <<>>
           /\ NewFile(level).level = level /\ NewFile(level).text = <<>> /\ Due(<<>>) = {}
<1>1. Outside(<<>>, <<>>) /\ UpTo(<<>>, r) /\ Due(<<>>) = {}
  BY DEF Outside, Buffered, Distinct, LastOf, ToSet, Due, NoTagIsOpen, UpTo
<1> QED BY <1>1 DEF FileOk, NewFile, FileType, FlagsOk

\* What g has to send is what files have, and its innermost file is new.
PushedOn(g, files) == OuterDue(g) = OuterDue(files) \cup TopDue(files) /\ TopBuf(g) = <<>> /\ TopDue(g) = {}

\* One file more, behind which the one around it has an empty buffer.
LEMMA PushedTop ==
    ASSUME NEW files, NEW r \in Nat, Stack(files, r), files # <<>>, TopBuf(files) = <<>>,
           NEW level \in Nat, level = 2 * Len(files), level <= SsiMaxLevel,
           NEW f, f = NewFile(level), NEW g, g = files \o <<f>>
    PROVE  Stack(g, r) /\ PushedOn(g, files)
<1> DEFINE l == Len(files)
<1>f. /\ FileOk(f, r) /\ f.buf = <<>> /\ f.level = level /\ f.text = <<>> /\ Due(<<>>) = {}
      /\ f \in FileType
  BY NewFileOk DEF FileOk
<1>0. /\ files \in Seq(FileType) /\ <<f>> \in Seq(FileType) /\ Len(<<f>>) = 1 /\ <<f>>[1] = f
      /\ g = files \o <<f>>
  BY <1>f DEF Stack
<1>1. l \in Nat \ {0}
  BY <1>0
<1>2. g \in Seq(FileType) /\ Len(g) = l + 1 /\ g[l + 1] = f /\ \A i \in 1..l : g[i] = files[i]
  <2>2. PICK q : q = <<f>>
    OBVIOUS
  <2>3. g = files \o q /\ q \in Seq(FileType) /\ Len(q) = 1 /\ q[1] = f
    BY <2>2, <1>0
  <2>4. g \in Seq(FileType) /\ Len(g) = l + 1
    BY <2>3, <1>0, ConcatProperties
  <2>5. \A i \in 1..(l + 1) : g[i] = IF i <= l THEN files[i] ELSE q[i - l]
    BY <2>3, <1>0, ConcatProperties
  <2>6. l + 1 \in 1..(l + 1) /\ ~(l + 1 <= l) /\ (l + 1) - l = 1
    BY <1>1
  <2>7. \A i \in 1..l : i \in 1..(l + 1) /\ i <= l
    BY <1>1
  <2> HIDE DEF l
  <2> QED BY <2>3, <2>4, <2>5, <2>6, <2>7
<1>3. g # <<>>
  BY <1>1, <1>2
<1>4. OuterDue(g) = OuterDue(files) \cup TopDue(files)
  <2>1. (l + 1) - 1 = l /\ \A i \in 1..l : i \in 1..(l - 1) \/ i = l
    BY <1>1
  <2>2. l \in 1..l /\ \A i \in 1..(l - 1) : i \in 1..l
    BY <1>1
  <2>3. OuterDue(g) = UNION {Due(files[i].text) : i \in 1..l}
    BY <1>2, <2>1 DEF OuterDue
  <2>4. TopDue(files) = Due(files[l].text)
    BY DEF TopDue
  <2>5. OuterDue(files) = UNION {Due(files[i].text) : i \in 1..(l - 1)}
    BY DEF OuterDue
  <2> HIDE DEF l
  <2> QED BY <2>1, <2>2, <2>3, <2>4, <2>5
<1>5. Stack(g, r)
  <2> SUFFICES ASSUME NEW i \in 1..(l + 1)
               PROVE /\ FileOk(g[i], r) /\ g[i].level = 2 * (i - 1) /\ g[i].level <= SsiMaxLevel
                     /\ (i < l + 1 => g[i].buf = <<>>)
    BY <1>2 DEF Stack
  <2>1. CASE i = l + 1
    <3>1. (l + 1) - 1 = l /\ ~(l + 1 < l + 1)
      BY <1>1
    <3> QED BY <2>1, <3>1, <1>f, <1>2
  <2>2. CASE i # l + 1
    <3>1. i \in 1..l /\ (i < l \/ i = l)
      BY <2>2, <1>1
    <3>2. files[l].buf = <<>>
      BY DEF TopBuf
    <3> QED BY <3>1, <3>2, <1>2 DEF Stack
  <2> QED BY <2>1, <2>2
<1> QED BY <1>2, <1>3, <1>4, <1>5, <1>f DEF PushedOn, TopBuf, TopDue

\* One file less.
LEMMA PoppedTop ==
    ASSUME NEW files, NEW r \in Nat, Stack(files, r), files # <<>>, NEW r2 \in Nat, r <= r2,
           NEW g, g = Front(files)
    PROVE  Stack(g, r2) /\ TopBuf(g) = <<>> /\ OuterDue(g) \cup TopDue(g) = OuterDue(files)
<1> DEFINE l == Len(files)
<1>1. /\ g \in Seq(FileType) /\ Len(g) = l - 1 /\ l \in Nat \ {0}
      /\ \A i \in 1..(l - 1) : g[i] = files[i]
  BY FrontIs DEF Stack
<1>2. Stack(g, r2)
  <2> SUFFICES ASSUME NEW i \in 1..(l - 1)
               PROVE /\ FileOk(g[i], r2) /\ g[i].level = 2 * (i - 1)
                     /\ g[i].level <= SsiMaxLevel /\ g[i].buf = <<>>
    BY <1>1 DEF Stack
  <2>1. i \in 1..l /\ i < l
    BY <1>1
  <2> QED BY <2>1, <1>1, FileLater DEF Stack
<1>3. CASE l = 1
  <2>1. g = <<>>
    BY <1>1, <1>3
  <2> QED BY <2>1, <1>1, <1>2, <1>3 DEF TopBuf, TopDue, OuterDue
<1>4. CASE l # 1
  <2>1. g # <<>> /\ l - 1 \in 1..(l - 1) /\ l - 1 \in 1..l /\ l - 1 < l
    BY <1>1, <1>4
  <2>2. TopBuf(g) = <<>>
    BY <2>1, <1>1 DEF TopBuf, Stack
  <2>3. \A i \in 1..(l - 1) : i \in 1..((l - 1) - 1) \/ i = l - 1
    BY <1>1
  <2>4. \A i \in 1..((l - 1) - 1) : i \in 1..(l - 1)
    BY <1>1
  <2>5. TopDue(g) = Due(files[l - 1].text)
    BY <2>1, <1>1 DEF TopDue
  <2>6. OuterDue(g) = UNION {Due(files[i].text) : i \in 1..((l - 1) - 1)}
    BY <2>4, <1>1 DEF OuterDue
  <2>7. OuterDue(files) = UNION {Due(files[i].text) : i \in 1..(l - 1)}
    BY DEF OuterDue
  <2> HIDE DEF l
  <2> QED BY <2>1, <2>2, <2>3, <2>4, <2>5, <2>6, <2>7, <1>2
<1> QED BY <1>3, <1>4

\* The innermost file.
LEMMA InnerIs ==
    ASSUME SsiInv, ssiFiles # <<>>
    PROVE  /\ Inner = ssiFiles[Len(ssiFiles)] /\ Len(ssiFiles) \in Nat \ {0} /\ Inner \in FileType
           /\ Inner.text \in Seq(Chr) /\ Inner.buf \in Seq(Nat) /\ UpTo(Inner.text, ssiRead) /\ Below(Inner.text, ssiRead + 1)
           /\ FlagsOk(Inner, Inner.text) /\ TopBuf(ssiFiles) = Inner.buf /\ TopDue(ssiFiles) = Due(Inner.text)
           /\ Inner.level = 2 * (Len(ssiFiles) - 1) /\ Inner.level \in Nat
<1>1. Inner = ssiFiles[Len(ssiFiles)]
  BY DEF Inner, Last
<1>2. ssiFiles \in Seq(FileType) /\ ssiRead \in Nat
  BY DEF SsiInv, Stack
<1>3. Len(ssiFiles) \in Nat \ {0} /\ Len(ssiFiles) \in 1..Len(ssiFiles)
  BY <1>2
<1>4. FileOk(Inner, ssiRead) /\ Inner.level = 2 * (Len(ssiFiles) - 1)
  BY <1>1, <1>3 DEF SsiInv, Stack
<1>5. Inner \in FileType /\ UpTo(Inner.text, ssiRead) /\ FlagsOk(Inner, Inner.text)
  BY <1>4 DEF FileOk
<1>6. Inner.text \in Seq(Chr) /\ Inner.buf \in Seq(Nat) /\ Inner.level \in Nat
  BY <1>5 DEF FileType
<1>7. Below(Inner.text, ssiRead + 1)
  <2> SUFFICES ASSUME NEW i \in 1..Len(Inner.text) PROVE Inner.text[i].id < ssiRead + 1
    BY DEF Below
  <2>1. Inner.text[i] \in Chr
    BY <1>6
  <2>2. Inner.text[i].id \in Nat /\ Inner.text[i].id <= ssiRead
    BY <2>1, <1>5 DEF Chr, UpTo
  <2> QED BY <2>2, <1>2
<1> QED BY <1>1, <1>3, <1>4, <1>5, <1>6, <1>7 DEF TopBuf, TopDue

\* What a step has to keep that reads a character of the innermost file.
LEMMA ReadStep ==
    ASSUME SsiInv, ssiFiles # <<>>, NEW c \in SsiChars, NEW f \in FileType,
           f.level = Inner.level, f.text = Inner.text, NEW write, SsiReads(c, f, write),
           NEW t, t = Append(Inner.text, [c |-> c, id |-> ssiRead + 1]), t \in Seq(Chr),
           UpTo(t, ssiRead + 1), FlagsOk(f, t),
           Sent(ssiOut \o write, ssiDue, OuterDue(ssiFiles), f.buf, Due(t), ssiRead + 1)
    PROVE  SsiInv'
<1>1. PICK g : g = [f EXCEPT !.text = t]
  OBVIOUS
<1>2. /\ g \in FileType /\ g.text = t /\ g.buf = f.buf /\ g.level = f.level
      /\ g.in_tag = f.in_tag /\ g.in_ssi_tag = f.in_ssi_tag
  BY <1>1 DEF FileType
<1>3. ssiRead \in Nat /\ ssiRead + 1 \in Nat /\ ssiRead <= ssiRead + 1
  BY DEF SsiInv
<1>4. FileOk(g, ssiRead + 1)
  BY <1>2 DEF FileOk, FlagsOk
<1>5. /\ ssiRead' = ssiRead + 1 /\ ssiFiles' = Front(ssiFiles) \o <<g>> /\ ssiOut' = ssiOut \o write
      /\ ssiPc' = ssiPc /\ ssiDue' = ssiDue
  BY <1>1 DEF SsiReads, SetInner
<1>6. g.level = ssiFiles[Len(ssiFiles)].level
  BY <1>2, InnerIs
<1>7. /\ Stack(ssiFiles', ssiRead + 1) /\ OuterDue(ssiFiles') = OuterDue(ssiFiles) /\ TopBuf(ssiFiles') = f.buf
      /\ TopDue(ssiFiles') = Due(t)
  <2>1. Stack(ssiFiles, ssiRead)
    BY DEF SsiInv
  <2>2. PICK files : files = ssiFiles'
    OBVIOUS
  <2>3. files = Front(ssiFiles) \o <<g>>
    BY <2>2, <1>5
  <2>4. PICK r2 : r2 = ssiRead + 1
    OBVIOUS
  <2>5. r2 \in Nat /\ ssiRead \in Nat /\ ssiRead <= r2 /\ FileOk(g, r2)
    BY <2>4, <1>3, <1>4
  <2>6. /\ Stack(files, r2) /\ OuterDue(files) = OuterDue(ssiFiles) /\ TopBuf(files) = g.buf
        /\ TopDue(files) = Due(g.text)
    <3>1. ssiFiles # <<>>
      OBVIOUS
    <3> QED BY ONLY <2>1, <2>3, <2>5, <1>6, <3>1, ReplacedTop
  <2> QED BY <2>2, <2>4, <2>6, <1>2
<1>8. ssiPc # "idle"
  BY DEF SsiInv
<1>9. Sent(ssiOut', ssiDue', OuterDue(ssiFiles'), TopBuf(ssiFiles'), TopDue(ssiFiles'), ssiRead')
  BY <1>5, <1>7
<1> QED BY <1>3, <1>5, <1>7, <1>8, <1>9 DEF SsiInv, OuterDue, TopBuf, TopDue

\* What a step that reads the character c of the innermost file may use.
LEMMA ReadsFrom ==
    ASSUME SsiInv, ssiFiles # <<>>, NEW c \in SsiChars, NEW x, x = [c |-> c, id |-> ssiRead + 1]
    PROVE  x \in Chr /\ x.c = c /\ x.id = ssiRead + 1 /\ Below(Inner.text, x.id)
<1>1. ssiRead + 1 \in Nat
  BY DEF SsiInv
<1> QED BY <1>1, InnerIs DEF Chr

\* What is known of the innermost file before a step.
LEMMA SentNow ==
    ASSUME SsiInv, ssiFiles # <<>>
    PROVE  /\ Sent(ssiOut, ssiDue, OuterDue(ssiFiles), Inner.buf, Due(Inner.text), ssiRead)
           /\ ssiRead \in Nat /\ ssiOut \in Seq(Nat)
<1>1. /\ Sent(ssiOut, ssiDue, OuterDue(ssiFiles), TopBuf(ssiFiles), TopDue(ssiFiles), ssiRead)
      /\ ssiRead \in Nat
  BY DEF SsiInv
<1>2. ssiOut \in Seq(Nat)
  BY <1>1 DEF Sent
<1> QED BY <1>1, <1>2, InnerIs

\* Nothing at the end of a sequence.
LEMMA EmptyEnd == ASSUME NEW s \in Seq(Nat) PROVE s \o <<>> = s
OBVIOUS

\* A tag opens; the text before it is sent (send_ssi_file).
LEMMA StepTagOpens == ASSUME SsiInv, ssiFiles # <<>>, TagOpens PROVE SsiInv'
<1>1. PICK x : x = [c |-> "<", id |-> ssiRead + 1]
  OBVIOUS
<1>2. PICK t : t = Append(Inner.text, x)
  OBVIOUS
<1>c. "<" \in SsiChars
  BY DEF SsiChars
<1>3. x \in Chr /\ x.c = "<" /\ x.id = ssiRead + 1 /\ Below(Inner.text, x.id)
  BY <1>1, <1>c, ReadsFrom
<1>4. Inner.text \in Seq(Chr) /\ Inner.buf \in Seq(Nat) /\ Inner \in FileType
  BY InnerIs
<1>5. Outside(Inner.buf, Inner.text)
  BY <1>4, InnerIs DEF TagOpens, FlagsOk, FileType
<1>6. PICK b : b = <<x.id>>
  OBVIOUS
<1>7. /\ InTag(b, t) /\ ~SsiBegun(b, t) /\ UpTo(t, x.id) /\ t \in Seq(Chr)
      /\ Due(t) = Due(Inner.text) \cup {x.id}
  BY <1>2, <1>3, <1>4, <1>5, <1>6, MatchTagOpens
<1>8. PICK f : f = InnerWith(TRUE, FALSE, b)
  OBVIOUS
<1>9. b \in Seq(Nat) /\ b = Append(<<>>, ssiRead + 1)
  BY <1>6, <1>3 DEF Chr
<1>10. /\ f \in FileType /\ f.level = Inner.level /\ f.text = Inner.text /\ f.buf = b
       /\ f.in_tag = TRUE /\ f.in_ssi_tag = FALSE
  BY <1>8, <1>9, <1>4 DEF InnerWith, FileType
<1>11. SsiReads("<", f, Inner.buf)
  BY <1>3, <1>6, <1>8 DEF TagOpens
<1>12. FlagsOk(f, t)
  BY <1>7, <1>10 DEF FlagsOk
<1>13. Sent(ssiOut \o Inner.buf, ssiDue, OuterDue(ssiFiles), <<>>, Due(Inner.text), ssiRead)
  BY SentNow, SentAll
<1>14. Sent(ssiOut \o Inner.buf, ssiDue, OuterDue(ssiFiles), b, Due(t), ssiRead + 1)
  <2>1. PICK sent : sent = ssiOut \o Inner.buf
    OBVIOUS
  <2>2. PICK old : old = OuterDue(ssiFiles)
    OBVIOUS
  <2>3. ssiRead \in Nat
    BY SentNow
  <2>4. Sent(sent, ssiDue, old, Append(<<>>, ssiRead + 1), Due(Inner.text) \cup {ssiRead + 1}, ssiRead + 1)
    BY <2>1, <2>2, <2>3, <1>13, SentText
  <2> QED BY <2>1, <2>2, <2>4, <1>9, <1>7, <1>3
<1> QED BY <1>1, <1>2, <1>c, <1>3, <1>7, <1>10, <1>11, <1>12, <1>14, ReadStep

\* A character outside tags (send_ssi_file).
LEMMA StepTextChar == ASSUME SsiInv, ssiFiles # <<>>, NEW c \in SsiChars, TextChar(c) PROVE SsiInv'
<1>1. PICK x : x = [c |-> c, id |-> ssiRead + 1]
  OBVIOUS
<1>2. PICK t : t = Append(Inner.text, x)
  OBVIOUS
<1>3. x \in Chr /\ x.c = c /\ x.id = ssiRead + 1 /\ Below(Inner.text, x.id)
  BY <1>1, ReadsFrom
<1>4. Inner.text \in Seq(Chr) /\ Inner.buf \in Seq(Nat) /\ Inner \in FileType
  BY InnerIs
<1>5. Outside(Inner.buf, Inner.text) /\ Inner.in_tag = FALSE /\ Inner.in_ssi_tag = FALSE
  BY <1>4, InnerIs DEF TextChar, FlagsOk, FileType
<1>6. PICK b : b = Append(Inner.buf, ssiRead + 1)
  OBVIOUS
<1>7. /\ Outside(<<>>, t) /\ Outside(b, t) /\ UpTo(t, ssiRead + 1) /\ t \in Seq(Chr)
      /\ Due(t) = Due(Inner.text) \cup {ssiRead + 1}
  <2>1. c # "<"
    BY DEF TextChar
  <2>2. /\ Outside(<<>>, t) /\ Outside(Append(Inner.buf, x.id), t) /\ UpTo(t, x.id)
        /\ t \in Seq(Chr) /\ Due(t) = Due(Inner.text) \cup {x.id}
    BY <2>1, <1>2, <1>3, <1>4, <1>5, MatchText
  <2> QED BY <2>2, <1>3, <1>6
<1>8. b \in Seq(Nat) /\ <<>> \in Seq(Nat) /\ WithNext(Inner) = b
  BY <1>6, <1>4, SentNow DEF WithNext
<1>9. Sent(ssiOut, ssiDue, OuterDue(ssiFiles), b, Due(t), ssiRead + 1)
  BY <1>6, <1>7, SentNow, SentText
<1>10. CASE Len(Inner.buf) + 1 = SsiBuffer
  <2>1. PICK f : f = [Inner EXCEPT !.buf = <<>>]
    OBVIOUS
  <2>2. SsiReads(c, f, b)
    BY <2>1, <1>8, <1>10 DEF TextChar
  <2>3. /\ f \in FileType /\ f.level = Inner.level /\ f.text = Inner.text /\ f.buf = <<>>
        /\ f.in_tag = FALSE /\ f.in_ssi_tag = FALSE
    BY <2>1, <1>4, <1>5, <1>8 DEF FileType
  <2>4. FlagsOk(f, t)
    BY <2>3, <1>7 DEF FlagsOk
  <2>5. ssiRead + 1 \in Nat
    BY SentNow
  <2>6. Sent(ssiOut \o b, ssiDue, OuterDue(ssiFiles), f.buf, Due(t), ssiRead + 1)
    BY <2>3, <2>5, <1>9, SentAll
  <2> QED BY <1>1, <1>2, <1>7, <2>2, <2>3, <2>4, <2>6, ReadStep
<1>11. CASE Len(Inner.buf) + 1 # SsiBuffer
  <2>1. PICK f : f = [Inner EXCEPT !.buf = b]
    OBVIOUS
  <2>2. SsiReads(c, f, <<>>)
    BY <2>1, <1>8, <1>11 DEF TextChar
  <2>3. /\ f \in FileType /\ f.level = Inner.level /\ f.text = Inner.text /\ f.buf = b
        /\ f.in_tag = FALSE /\ f.in_ssi_tag = FALSE
    BY <2>1, <1>4, <1>5, <1>8 DEF FileType
  <2>4. FlagsOk(f, t)
    BY <2>3, <1>7 DEF FlagsOk
  <2>5. ssiOut \o <<>> = ssiOut
    BY SentNow, EmptyEnd
  <2>6. Sent(ssiOut \o <<>>, ssiDue, OuterDue(ssiFiles), f.buf, Due(t), ssiRead + 1)
    BY <2>3, <2>5, <1>9
  <2> QED BY <1>1, <1>2, <1>7, <2>2, <2>3, <2>4, <2>6, ReadStep
<1> QED BY <1>10, <1>11

\* A character in a tag (send_ssi_file).
LEMMA StepTagChar == ASSUME SsiInv, ssiFiles # <<>>, NEW c \in SsiChars, TagChar(c) PROVE SsiInv'
<1>1. PICK x : x = [c |-> c, id |-> ssiRead + 1]
  OBVIOUS
<1>2. PICK t : t = Append(Inner.text, x)
  OBVIOUS
<1>3. x \in Chr /\ x.c = c /\ x.id = ssiRead + 1 /\ Below(Inner.text, x.id) /\ c # ">"
  BY <1>1, ReadsFrom DEF TagChar
<1>4. Inner.text \in Seq(Chr) /\ Inner.buf \in Seq(Nat) /\ Inner \in FileType
  BY InnerIs
<1>5. InTag(Inner.buf, Inner.text) /\ (Inner.in_ssi_tag = TRUE <=> SsiBegun(Inner.buf, Inner.text))
  BY <1>4, InnerIs DEF TagChar, FlagsOk, FileType
<1>6. PICK b : b = Append(Inner.buf, ssiRead + 1)
  OBVIOUS
<1>7. /\ InTag(b, t)
      /\ SsiBegun(b, t) <=> (SsiBegun(Inner.buf, Inner.text) \/ (Len(Inner.buf) = 1 /\ c \in SsiOpeners))
      /\ UpTo(t, ssiRead + 1) /\ t \in Seq(Chr) /\ Due(t) = Due(Inner.text) \cup {ssiRead + 1}
  <2>1. /\ InTag(Append(Inner.buf, x.id), t)
        /\ SsiBegun(Append(Inner.buf, x.id), t) <=> (SsiBegun(Inner.buf, Inner.text) \/ (Len(Inner.buf) = 1 /\ x.c \in SsiOpeners))
        /\ UpTo(t, x.id) /\ t \in Seq(Chr) /\ Due(t) = Due(Inner.text) \cup {x.id}
    BY <1>2, <1>3, <1>4, <1>5, MatchTagChar
  <2> QED BY <2>1, <1>3, <1>6
<1>8. b \in Seq(Nat) /\ WithNext(Inner) = b
  BY <1>6, <1>4, SentNow DEF WithNext
<1>9. Sent(ssiOut, ssiDue, OuterDue(ssiFiles), b, Due(t), ssiRead + 1)
  BY <1>6, <1>7, SentNow, SentText
<1>10. PICK f : f = InnerWith(TRUE, Inner.in_ssi_tag \/ (Len(Inner.buf) = 1 /\ c \in SsiOpeners), b)
  OBVIOUS
<1>11. SsiReads(c, f, <<>>)
  BY <1>8, <1>10 DEF TagChar
<1>12. f.level = Inner.level /\ f.text = Inner.text /\ f.buf = b /\ f.in_tag = TRUE
  BY <1>10 DEF InnerWith
<1>13. f.in_ssi_tag = (Inner.in_ssi_tag \/ (Len(Inner.buf) = 1 /\ c \in SsiOpeners))
  BY <1>10 DEF InnerWith
<1>14. /\ f.in_ssi_tag \in BOOLEAN
       /\ (f.in_ssi_tag = TRUE <=> (Inner.in_ssi_tag = TRUE \/ (Len(Inner.buf) = 1 /\ c \in SsiOpeners)))
  <2>1. Inner.in_ssi_tag \in BOOLEAN
    BY <1>4 DEF FileType
  <2>2. CASE Inner.in_ssi_tag = TRUE
    BY <2>2, <1>13
  <2>3. CASE Inner.in_ssi_tag = FALSE
    BY <2>3, <1>13
  <2> QED BY <2>1, <2>2, <2>3
<1>15. f \in FileType
  <2>1. PICK v : v = (Inner.in_ssi_tag \/ (Len(Inner.buf) = 1 /\ c \in SsiOpeners))
    OBVIOUS
  <2>2. f = [level |-> Inner.level, in_tag |-> TRUE, in_ssi_tag |-> v, buf |-> b, text |-> Inner.text]
    BY <2>1, <1>10 DEF InnerWith
  <2>3. v \in BOOLEAN
    BY <2>1, <1>13, <1>14
  <2>4. Inner.level \in Nat
    BY <1>4 DEF FileType
  <2> QED BY <2>2, <2>3, <2>4, <1>8, <1>4 DEF FileType
<1>16. FlagsOk(f, t)
  <2>1. InTag(f.buf, t) /\ f.in_tag = TRUE
    BY <1>7, <1>12
  <2>2. f.in_ssi_tag = TRUE <=> SsiBegun(f.buf, t)
    BY <1>5, <1>7, <1>12, <1>14
  <2>3. TRUE # FALSE
    OBVIOUS
  <2> QED BY <2>1, <2>2, <2>3 DEF FlagsOk
<1>17. ssiOut \o <<>> = ssiOut
  BY SentNow, EmptyEnd
<1>18. Sent(ssiOut \o <<>>, ssiDue, OuterDue(ssiFiles), f.buf, Due(t), ssiRead + 1)
  BY <1>9, <1>12, <1>17
<1> QED BY <1>1, <1>2, <1>7, <1>11, <1>12, <1>15, <1>16, <1>18, ReadStep

\* What a ">" makes of the innermost file and its text t.
LEMMA TagCloses ==
    ASSUME SsiInv, ssiFiles # <<>>, Inner.in_tag = TRUE, NEW t, t = Append(Inner.text, [c |-> ">",
           id |-> ssiRead + 1])
    PROVE  /\ Outside(<<>>, t) /\ UpTo(t, ssiRead + 1) /\ t \in Seq(Chr)
           /\ Inner.in_ssi_tag = TRUE => Due(t) = Due(Inner.text) \ ToSet(Inner.buf)
           /\ Inner.in_ssi_tag = FALSE => Due(t) = Due(Inner.text) \cup {ssiRead + 1}
           /\ InnerWith(FALSE, FALSE, <<>>) \in FileType /\ FlagsOk(InnerWith(FALSE, FALSE, <<>>), t)
           /\ InnerWith(FALSE, FALSE, <<>>).level = Inner.level /\ InnerWith(FALSE, FALSE, <<>>).text = Inner.text
           /\ InnerWith(FALSE, FALSE, <<>>).buf = <<>> /\ ">" \in SsiChars
<1>1. PICK x : x = [c |-> ">", id |-> ssiRead + 1]
  OBVIOUS
<1>2. t = Append(Inner.text, x) /\ ">" \in SsiChars
  BY <1>1 DEF SsiChars
<1>3. x \in Chr /\ x.c = ">" /\ x.id = ssiRead + 1 /\ Below(Inner.text, x.id)
  BY <1>1, <1>2, ReadsFrom
<1>4. Inner.text \in Seq(Chr) /\ Inner.buf \in Seq(Nat) /\ Inner \in FileType
  BY InnerIs
<1>5. InTag(Inner.buf, Inner.text) /\ (Inner.in_ssi_tag = TRUE <=> SsiBegun(Inner.buf, Inner.text))
  BY <1>4, InnerIs DEF FlagsOk
<1>6. /\ Outside(<<>>, t) /\ UpTo(t, x.id) /\ t \in Seq(Chr)
      /\ Due(t) = IF SsiBegun(Inner.buf, Inner.text) THEN Due(Inner.text) \ ToSet(Inner.buf) ELSE Due(Inner.text) \cup {x.id}
  <2>1. PICK s : s = Inner.text
    OBVIOUS
  <2>2. PICK b : b = Inner.buf
    OBVIOUS
  <2>3. /\ s \in Seq(Chr) /\ x \in Chr /\ Below(s, x.id) /\ b \in Seq(Nat) /\ InTag(b, s)
        /\ x.c = ">" /\ t = Append(s, x)
    BY <2>1, <2>2, <1>2, <1>3, <1>4, <1>5
  <2>4. /\ Outside(<<>>, t) /\ UpTo(t, x.id) /\ t \in Seq(Chr)
        /\ Due(t) = IF SsiBegun(b, s) THEN Due(s) \ ToSet(b) ELSE Due(s) \cup {x.id}
    BY ONLY <2>3, MatchTagCloses
  <2> QED BY <2>1, <2>2, <2>4
<1>7. PICK f : f = InnerWith(FALSE, FALSE, <<>>)
  OBVIOUS
<1>8. /\ f \in FileType /\ f.level = Inner.level /\ f.text = Inner.text /\ f.buf = <<>>
      /\ f.in_tag = FALSE /\ f.in_ssi_tag = FALSE
  BY <1>4, <1>7, EmptyIs DEF InnerWith, FileType
<1>9. FlagsOk(f, t)
  BY <1>6, <1>8 DEF FlagsOk
<1>10. Inner.in_ssi_tag = TRUE => Due(t) = Due(Inner.text) \ ToSet(Inner.buf)
  BY <1>5, <1>6
<1>11. Inner.in_ssi_tag = FALSE => Due(t) = Due(Inner.text) \cup {ssiRead + 1}
  <2>1. Inner.in_ssi_tag = FALSE => ~SsiBegun(Inner.buf, Inner.text)
    BY <1>5
  <2> QED BY <2>1, <1>3, <1>6
<1> QED BY <1>2, <1>3, <1>6, <1>7, <1>8, <1>9, <1>10, <1>11

\* A tag that is no SSI tag closes and is sent (send_ssi_file).
LEMMA StepHtmlTagCloses == ASSUME SsiInv, ssiFiles # <<>>, HtmlTagCloses PROVE SsiInv'
<1>1. PICK t : t = Append(Inner.text, [c |-> ">", id |-> ssiRead + 1])
  OBVIOUS
<1>2. PICK f : f = InnerWith(FALSE, FALSE, <<>>)
  OBVIOUS
<1>3. Inner.in_tag = TRUE /\ Inner.in_ssi_tag = FALSE
  BY InnerIs DEF HtmlTagCloses, FileType
<1>4. /\ UpTo(t, ssiRead + 1) /\ t \in Seq(Chr) /\ Due(t) = Due(Inner.text) \cup {ssiRead + 1}
      /\ f \in FileType /\ FlagsOk(f, t) /\ f.level = Inner.level /\ f.text = Inner.text
      /\ f.buf = <<>> /\ ">" \in SsiChars
  BY <1>1, <1>2, <1>3, TagCloses
<1>5. PICK b : b = Append(Inner.buf, ssiRead + 1)
  OBVIOUS
<1>6. SsiReads(">", f, b)
  BY <1>2, <1>5 DEF HtmlTagCloses, WithNext
<1>7. Sent(ssiOut, ssiDue, OuterDue(ssiFiles), b, Due(t), ssiRead + 1)
  BY <1>4, <1>5, SentNow, SentText
<1>8. ssiRead + 1 \in Nat
  BY SentNow
<1>9. Sent(ssiOut \o b, ssiDue, OuterDue(ssiFiles), f.buf, Due(t), ssiRead + 1)
  BY <1>4, <1>7, <1>8, SentAll
<1> QED BY <1>1, <1>4, <1>6, <1>9, ReadStep

\* The buffer of a tag that is dropped.
LEMMA TagDropped ==
    ASSUME SsiInv, ssiFiles # <<>>
    PROVE  Sent(ssiOut, ssiDue, OuterDue(ssiFiles), <<>>, Due(Inner.text) \ ToSet(Inner.buf), ssiRead + 1) /\ ssiRead + 1 \in Nat
BY SentNow, SentDrop, SentLater

\* An SSI tag of which nothing is sent (do_ssi_include, do_ssi_exec).
LEMMA StepSsiTagNothing == ASSUME SsiInv, ssiFiles # <<>>, SsiTagNothing PROVE SsiInv'
<1>1. PICK t : t = Append(Inner.text, [c |-> ">", id |-> ssiRead + 1])
  OBVIOUS
<1>2. PICK f : f = InnerWith(FALSE, FALSE, <<>>)
  OBVIOUS
<1>3. Inner.in_tag = TRUE /\ Inner.in_ssi_tag = TRUE
  BY InnerIs DEF SsiTagNothing, FileType, FlagsOk
<1>4. /\ UpTo(t, ssiRead + 1) /\ t \in Seq(Chr) /\ Due(t) = Due(Inner.text) \ ToSet(Inner.buf)
      /\ f \in FileType /\ FlagsOk(f, t) /\ f.level = Inner.level /\ f.text = Inner.text
      /\ f.buf = <<>> /\ ">" \in SsiChars
  BY <1>1, <1>2, <1>3, TagCloses
<1>5. SsiReads(">", f, <<>>)
  BY <1>2 DEF SsiTagNothing
<1>6. ssiOut \o <<>> = ssiOut
  BY SentNow, EmptyEnd
<1>7. Sent(ssiOut \o <<>>, ssiDue, OuterDue(ssiFiles), f.buf, Due(t), ssiRead + 1)
  BY <1>4, <1>6, TagDropped
<1> QED BY <1>1, <1>4, <1>5, <1>7, ReadStep

\* The files after an SSI tag was read to its end.
LEMMA TagDoneFiles ==
    ASSUME SsiInv, ssiFiles # <<>>, Inner.in_ssi_tag = TRUE, NEW r \in Nat, ssiRead + 1 <= r,
           NEW g, g = SetInner(TagDone)
    PROVE  /\ Stack(g, r) /\ OuterDue(g) = OuterDue(ssiFiles) /\ TopBuf(g) = <<>>
           /\ TopDue(g) = Due(Inner.text) \ ToSet(Inner.buf) /\ g # <<>> /\ Len(g) = Len(ssiFiles)
<1>1. PICK t : t = Append(Inner.text, [c |-> ">", id |-> ssiRead + 1])
  OBVIOUS
<1>2. PICK f : f = InnerWith(FALSE, FALSE, <<>>)
  OBVIOUS
<1>3. Inner.in_tag = TRUE
  BY InnerIs DEF FlagsOk, FileType
<1>4. /\ UpTo(t, ssiRead + 1) /\ t \in Seq(Chr) /\ Due(t) = Due(Inner.text) \ ToSet(Inner.buf)
      /\ f \in FileType /\ FlagsOk(f, t) /\ f.level = Inner.level /\ f.text = Inner.text
      /\ f.buf = <<>>
  BY <1>1, <1>2, <1>3, TagCloses
<1>5. PICK h : h = [f EXCEPT !.text = t]
  OBVIOUS
<1>6. /\ h \in FileType /\ h.text = t /\ h.buf = <<>> /\ h.level = f.level
      /\ h.in_tag = f.in_tag /\ h.in_ssi_tag = f.in_ssi_tag
  BY <1>4, <1>5 DEF FileType
<1>7. h = TagDone
  <2>1. f.text = Inner.text
    BY <1>4
  <2>2. TagDone = [f EXCEPT !.text = Append(f.text, [c |-> ">", id |-> ssiRead + 1])]
    BY <1>2 DEF TagDone
  <2> QED BY <2>1, <2>2, <1>1, <1>5
<1>8. ssiRead \in Nat /\ ssiRead + 1 \in Nat
  BY SentNow
<1>9. FileOk(h, r)
  <2>1. FlagsOk(h, t) /\ h.buf = f.buf
    BY <1>4, <1>6 DEF FlagsOk
  <2>2. FileOk(h, ssiRead + 1)
    BY <2>1, <1>4, <1>6 DEF FileOk
  <2>3. PICK r1 : r1 = ssiRead + 1
    OBVIOUS
  <2>4. r1 \in Nat /\ r1 <= r /\ FileOk(h, r1)
    BY <2>2, <2>3, <1>8
  <2> QED BY ONLY <2>4, r \in Nat, FileLater
<1>10. /\ g = Front(ssiFiles) \o <<h>> /\ Stack(ssiFiles, ssiRead) /\ ssiRead <= r
       /\ ssiRead \in Nat /\ r \in Nat /\ ssiFiles # <<>>
  BY <1>7, <1>8 DEF SetInner, SsiInv
<1>11. h.level = ssiFiles[Len(ssiFiles)].level
  BY <1>4, <1>6, InnerIs
<1>12. /\ Stack(g, r) /\ OuterDue(g) = OuterDue(ssiFiles) /\ TopBuf(g) = h.buf /\ TopDue(g) = Due(h.text)
       /\ g # <<>> /\ Len(g) = Len(ssiFiles)
  BY ONLY <1>9, <1>10, <1>11, ReplacedTop
<1> QED BY <1>4, <1>6, <1>12

\* An SSI tag that sends data at once: a file that is no SSI file, or what a command writes.
LEMMA StepSsiTagData == ASSUME SsiInv, ssiFiles # <<>>, SsiTagData PROVE SsiInv'
<1>1. Inner.in_ssi_tag = TRUE /\ ssiRead' = ssiRead + 2 /\ ssiFiles' = SetInner(TagDone)
      /\ ssiOut' = Append(ssiOut, ssiRead + 2) /\ ssiDue' = ssiDue \cup {ssiRead + 2}
      /\ ssiPc' = ssiPc
  <2>1. Inner.in_ssi_tag \in BOOLEAN
    BY InnerIs DEF FileType
  <2> QED BY <2>1 DEF SsiTagData, SsiTag
<1>2. PICK g : g = SetInner(TagDone)
  OBVIOUS
<1>3. /\ ssiRead \in Nat /\ ssiRead + 2 \in Nat /\ ssiRead + 1 <= ssiRead + 2
      /\ ssiRead + 1 \in Nat /\ (ssiRead + 1) + 1 = ssiRead + 2
  BY SentNow
<1>4. /\ Stack(g, ssiRead + 2) /\ OuterDue(g) = OuterDue(ssiFiles) /\ TopBuf(g) = <<>>
      /\ TopDue(g) = Due(Inner.text) \ ToSet(Inner.buf)
  BY <1>1, <1>2, <1>3, TagDoneFiles
<1>5. Sent(ssiOut, ssiDue, OuterDue(ssiFiles), <<>>, Due(Inner.text) \ ToSet(Inner.buf), ssiRead + 1)
  BY TagDropped
<1>6. Sent(Append(ssiOut, ssiRead + 2), ssiDue \cup {ssiRead + 2}, OuterDue(g), TopBuf(g), TopDue(g), ssiRead + 2)
  <2>1. PICK r : r = ssiRead + 1
    OBVIOUS
  <2>2. r \in Nat /\ Sent(ssiOut, ssiDue, OuterDue(g), <<>>, TopDue(g), r)
    BY <2>1, <1>3, <1>4, <1>5
  <2>3. Sent(Append(ssiOut, r + 1), ssiDue \cup {r + 1}, OuterDue(g), <<>>, TopDue(g), r + 1)
    BY <2>2, SentData
  <2>4. r + 1 = ssiRead + 2
    BY <2>1, <1>3
  <2> QED BY <2>3, <2>4, <1>4
<1>7. ssiPc # "idle"
  BY DEF SsiInv
<1>8. g = ssiFiles'
  BY <1>1, <1>2
<1>9. /\ Stack(ssiFiles', ssiRead')
      /\ Sent(ssiOut', ssiDue', OuterDue(ssiFiles'), TopBuf(ssiFiles'), TopDue(ssiFiles'), ssiRead')
  BY <1>1, <1>4, <1>6, <1>8
<1> QED BY <1>1, <1>3, <1>7, <1>9 DEF SsiInv, OuterDue, TopBuf, TopDue

\* An SSI tag that includes a file (do_ssi_include).
LEMMA StepSsiTagIncludes == ASSUME SsiInv, ssiFiles # <<>>, SsiTagIncludes PROVE SsiInv'
<1>1. Inner.in_ssi_tag = TRUE /\ ssiRead' = ssiRead + 1 /\ UNCHANGED <<ssiPc, ssiOut, ssiDue>>
  <2>1. Inner.in_ssi_tag \in BOOLEAN
    BY InnerIs DEF FileType
  <2> QED BY <2>1 DEF SsiTagIncludes, SsiTag
<1>2. PICK g : g = SetInner(TagDone)
  OBVIOUS
<1>3. PICK r : r = ssiRead + 1
  OBVIOUS
<1>4. r \in Nat /\ ssiRead + 1 <= r
  BY <1>3, SentNow
<1>5. /\ Stack(g, r) /\ OuterDue(g) = OuterDue(ssiFiles) /\ TopBuf(g) = <<>>
      /\ TopDue(g) = Due(Inner.text) \ ToSet(Inner.buf) /\ g # <<>> /\ Len(g) = Len(ssiFiles)
  BY <1>1, <1>2, <1>4, TagDoneFiles
<1>6. Sent(ssiOut, ssiDue, OuterDue(g), <<>>, TopDue(g), r)
  BY <1>3, <1>5, TagDropped
<1>7. PICK level : level = Inner.level + 2
  OBVIOUS
<1>8. level \in Nat /\ level = 2 * Len(g)
  BY <1>5, <1>7, InnerIs
<1>9. ssiFiles' = g \o (IF level > SsiMaxLevel THEN <<>> ELSE <<NewFile(level)>>)
  BY <1>2, <1>7 DEF SsiTagIncludes
<1>10. ssiPc # "idle"
  BY DEF SsiInv
<1>11. SsiMaxLevel \in Nat
  BY SsiAssumption
<1>12. CASE level > SsiMaxLevel
  <2>1. ssiFiles' = g
    <3>1. g \in Seq(FileType)
      BY <1>5 DEF Stack
    <3> QED BY <3>1, <1>9, <1>12
  <2>2. /\ Stack(ssiFiles', ssiRead')
        /\ Sent(ssiOut', ssiDue', OuterDue(ssiFiles'), TopBuf(ssiFiles'), TopDue(ssiFiles'), ssiRead')
    BY <2>1, <1>1, <1>3, <1>5, <1>6
  <2> QED BY <2>2, <1>1, <1>3, <1>4, <1>10 DEF SsiInv, OuterDue, TopBuf, TopDue
<1>13. CASE ~(level > SsiMaxLevel)
  <2>1. PICK h : h = g \o <<NewFile(level)>>
    OBVIOUS
  <2>2. level <= SsiMaxLevel
    BY <1>8, <1>11, <1>13
  <2>3. /\ Stack(h, r) /\ OuterDue(h) = OuterDue(g) \cup TopDue(g) /\ TopBuf(h) = <<>>
        /\ TopDue(h) = {}
    <3>1. PICK f : f = NewFile(level)
      OBVIOUS
    <3>2. h = g \o <<f>>
      BY <2>1, <3>1
    <3>3. /\ r \in Nat /\ Stack(g, r) /\ g # <<>> /\ TopBuf(g) = <<>> /\ level \in Nat
          /\ level = 2 * Len(g)
      BY <1>4, <1>5, <1>8
    <3>4. Stack(h, r) /\ PushedOn(h, g)
      BY ONLY <3>1, <3>2, <3>3, <2>2, PushedTop
    <3> QED BY <3>4 DEF PushedOn
  <2>4. Sent(ssiOut, ssiDue, OuterDue(h), <<>>, TopDue(h), r)
    <3>1. ssiDue \cup OuterDue(h) \cup TopDue(h) = ssiDue \cup OuterDue(g) \cup TopDue(g)
      BY <2>3
    <3> QED BY <3>1, <1>4, <1>6, SentMove
  <2>5. ssiFiles' = h
    BY <2>1, <1>9, <1>13
  <2>6. /\ Stack(ssiFiles', ssiRead')
        /\ Sent(ssiOut', ssiDue', OuterDue(ssiFiles'), TopBuf(ssiFiles'), TopDue(ssiFiles'), ssiRead')
    BY <2>3, <2>4, <2>5, <1>1, <1>3
  <2> QED BY <2>6, <1>1, <1>3, <1>4, <1>10 DEF SsiInv, OuterDue, TopBuf, TopDue
<1> QED BY <1>12, <1>13

\* The innermost file is closed after what was due of it is new, and the buffer is sent or dropped.
LEMMA FileGone ==
    ASSUME SsiInv, ssiFiles # <<>>, NEW r \in Nat, ssiRead <= r, NEW sent, NEW new,
           Sent(sent, ssiDue, OuterDue(ssiFiles), <<>>, new, r),
           ssiFiles' = Front(ssiFiles), ssiRead' = r, ssiOut' = sent, ssiDue' = ssiDue \cup new, ssiPc' = ssiPc
    PROVE  SsiInv'
<1>1. PICK g : g = Front(ssiFiles)
  OBVIOUS
<1>2. /\ Stack(ssiFiles, ssiRead) /\ ssiRead \in Nat /\ ssiFiles # <<>> /\ ssiPc # "idle"
      /\ r \in Nat /\ ssiRead <= r
  BY DEF SsiInv
<1>3. Stack(g, r) /\ TopBuf(g) = <<>> /\ OuterDue(g) \cup TopDue(g) = OuterDue(ssiFiles)
  BY ONLY <1>1, <1>2, PoppedTop
<1>4. Sent(sent, ssiDue \cup new, OuterDue(g), <<>>, TopDue(g), r)
  <2>1. PICK due2 : due2 = ssiDue \cup new
    OBVIOUS
  <2>2. due2 \cup OuterDue(g) \cup TopDue(g) = ssiDue \cup OuterDue(ssiFiles) \cup new
    BY <2>1, <1>3
  <2>3. Sent(sent, due2, OuterDue(g), <<>>, TopDue(g), r)
    BY <2>2, SentMove
  <2> QED BY <2>1, <2>3
<1>5. /\ Stack(ssiFiles', ssiRead')
      /\ Sent(ssiOut', ssiDue', OuterDue(ssiFiles'), TopBuf(ssiFiles'), TopDue(ssiFiles'), ssiRead')
  BY <1>1, <1>3, <1>4
<1> QED BY <1>2, <1>5 DEF SsiInv, OuterDue, TopBuf, TopDue

\* A tag that does not fit in the buffer ends the file (send_ssi_file).
LEMMA StepTagTooLarge ==
    ASSUME SsiInv, ssiFiles # <<>>, NEW c \in SsiChars, TagTooLarge(c)
    PROVE  SsiInv'
<1>1. PICK new : new = Due(Inner.text) \ ToSet(Inner.buf)
  OBVIOUS
<1>2. PICK r : r = ssiRead + 1
  OBVIOUS
<1>3. r \in Nat /\ ssiRead <= r /\ Sent(ssiOut, ssiDue, OuterDue(ssiFiles), <<>>, new, r)
  BY <1>1, <1>2, TagDropped, SentNow
<1>4. /\ ssiFiles' = Front(ssiFiles) /\ ssiRead' = r /\ ssiOut' = ssiOut
      /\ ssiDue' = ssiDue \cup new /\ ssiPc' = ssiPc
  BY <1>1, <1>2 DEF TagTooLarge
<1> QED BY <1>3, <1>4, FileGone

\* The end of a file: what is in the buffer is sent, also of a tag that is not closed.
LEMMA StepSsiFileEnds == ASSUME SsiInv, ssiFiles # <<>>, SsiFileEnds PROVE SsiInv'
<1>1. PICK new : new = Due(Inner.text)
  OBVIOUS
<1>2. PICK sent : sent = ssiOut \o Inner.buf
  OBVIOUS
<1>3. /\ ssiRead \in Nat /\ ssiRead <= ssiRead
      /\ Sent(sent, ssiDue, OuterDue(ssiFiles), <<>>, new, ssiRead)
  BY <1>1, <1>2, SentNow, SentAll
<1>4. /\ ssiFiles' = Front(ssiFiles) /\ ssiRead' = ssiRead /\ ssiOut' = sent
      /\ ssiDue' = ssiDue \cup new /\ ssiPc' = ssiPc
  BY <1>1, <1>2 DEF SsiFileEnds
<1> QED BY <1>3, <1>4, FileGone

\* The file of the request is opened (handle_ssi_file_request).
LEMMA StepSsiOpen == ASSUME SsiInv, SsiOpen PROVE SsiInv'
<1>1. PICK f : f = NewFile(0)
  OBVIOUS
<1>2. PICK g : g = <<f>>
  OBVIOUS
<1>3. /\ ssiRead \in Nat /\ ssiFiles = <<>>
      /\ Sent(ssiOut, ssiDue, OuterDue(ssiFiles), TopBuf(ssiFiles), TopDue(ssiFiles), ssiRead)
  BY DEF SsiInv, SsiOpen
<1>4. FileOk(f, ssiRead) /\ f.buf = <<>> /\ f.level = 0 /\ f.text = <<>> /\ Due(<<>>) = {}
  BY <1>1, <1>3, NewFileOk
<1>5. g \in Seq(FileType) /\ Len(g) = 1 /\ g[1] = f /\ g # <<>>
  BY <1>2, <1>4 DEF FileOk
<1>6. Stack(g, ssiRead)
  <2>1. SsiMaxLevel \in Nat
    BY SsiAssumption
  <2>2. \A i \in 1..Len(g) : i = 1
    BY <1>5
  <2> QED BY <2>1, <2>2, <1>4, <1>5 DEF Stack
<1>7. OuterDue(g) = {} /\ TopBuf(g) = <<>> /\ TopDue(g) = {}
  BY <1>4, <1>5 DEF OuterDue, TopBuf, TopDue
<1>8. OuterDue(ssiFiles) = {} /\ TopBuf(ssiFiles) = <<>> /\ TopDue(ssiFiles) = {}
  BY <1>3 DEF OuterDue, TopBuf, TopDue
<1>9. ssiFiles' = g /\ ssiRead' = ssiRead /\ ssiOut' = ssiOut /\ ssiDue' = ssiDue /\ ssiPc' = "send"
  BY <1>1, <1>2 DEF SsiOpen
<1>10. /\ Stack(ssiFiles', ssiRead')
       /\ Sent(ssiOut', ssiDue', OuterDue(ssiFiles'), TopBuf(ssiFiles'), TopDue(ssiFiles'), ssiRead')
  BY <1>3, <1>6, <1>7, <1>8, <1>9
<1> QED BY <1>3, <1>9, <1>10 DEF SsiInv, OuterDue, TopBuf, TopDue

\* No file is read at the beginning.
LEMMA SsiBegins == SsiInit => SsiInv
<1> SUFFICES ASSUME SsiInit PROVE SsiInv
  OBVIOUS
<1>1. Stack(<<>>, 0)
  BY DEF Stack
<1>2. OuterDue(<<>>) = {} /\ TopBuf(<<>>) = <<>> /\ TopDue(<<>>) = {}
  BY DEF OuterDue, TopBuf, TopDue
<1>3. Sent(<<>>, {}, {}, <<>>, {}, 0)
  BY EmptyIs DEF Sent
<1> QED BY <1>1, <1>2, <1>3 DEF SsiInit, SsiInv

\* Every step keeps the invariant, for any files, any size of the buffer and any depth of
\* includes.
LEMMA SsiStep == SsiInv /\ [SsiNext]_ssiVars => SsiInv'
<1> SUFFICES ASSUME SsiInv, [SsiNext]_ssiVars PROVE SsiInv'
  OBVIOUS
<1>1. CASE UNCHANGED ssiVars
  BY <1>1 DEF ssiVars, SsiInv, OuterDue, TopBuf, TopDue
<1>2. CASE SsiOpen
  BY <1>2, StepSsiOpen
<1>3. CASE SsiOpenFails \/ SsiDone
  BY <1>3 DEF SsiOpenFails, SsiDone, SsiInv, OuterDue, TopBuf, TopDue
<1>4. CASE ssiFiles # <<>> /\ (TagOpens \/ HtmlTagCloses)
  BY <1>4, StepTagOpens, StepHtmlTagCloses
<1>5. CASE ssiFiles # <<>> /\ (SsiTagNothing \/ SsiTagData \/ SsiTagIncludes \/ SsiFileEnds)
  BY <1>5, StepSsiTagNothing, StepSsiTagData, StepSsiTagIncludes, StepSsiFileEnds
<1>6. CASE ssiFiles # <<>> /\ \E c \in SsiChars : TextChar(c) \/ TagChar(c) \/ TagTooLarge(c)
  BY <1>6, StepTextChar, StepTagChar, StepTagTooLarge
<1> QED BY <1>1, <1>2, <1>3, <1>4, <1>5, <1>6 DEF SsiNext

\* It implies the property.
LEMMA SsiSafe == SsiInv => SsiInOrder
<1> SUFFICES ASSUME SsiInv PROVE SsiInOrder
  OBVIOUS
<1>0. /\ ssiRead \in Nat /\ Stack(ssiFiles, ssiRead) /\ ssiFiles \in Seq(FileType) /\ SsiMaxLevel \in Nat
      /\ Sent(ssiOut, ssiDue, OuterDue(ssiFiles), TopBuf(ssiFiles), TopDue(ssiFiles), ssiRead)
  BY SsiAssumption DEF SsiInv, Stack
<1>1. DOMAIN ssiOut = 1..Len(ssiOut) /\ DOMAIN ssiFiles = 1..Len(ssiFiles) /\ Len(ssiFiles) \in Nat
  BY <1>0 DEF Sent
<1>2. \A i, j \in DOMAIN ssiOut : i < j => ssiOut[i] < ssiOut[j]
  BY <1>0, <1>1 DEF Sent, Increasing
<1>e. ToSet(<<>>) = {}
  BY EmptyIs
<1>3. CASE ssiFiles = <<>>
  <2>1. DOMAIN ssiFiles = {} /\ Len(ssiFiles) = 0
    BY <1>3
  <2>2. OuterDue(ssiFiles) = {} /\ TopBuf(ssiFiles) = <<>> /\ TopDue(ssiFiles) = {}
    BY <1>3 DEF OuterDue, TopBuf, TopDue
  <2>3. ToSet(ssiOut) = ssiDue
    BY <2>2, <1>0, <1>e DEF Sent
  <2> QED BY <2>1, <2>3, <1>0, <1>2 DEF SsiInOrder
<1>4. CASE ssiFiles # <<>>
  <2> DEFINE l == Len(ssiFiles)
  <2>1. l \in Nat \ {0} /\ l \in 1..l /\ \A i \in 1..l : i < l \/ i = l
    BY <1>0, <1>4
  <2>2. \A i \in 1..l : i < l => ssiFiles[i].buf = <<>>
    BY <1>0 DEF Stack
  <2>3. TopBuf(ssiFiles) = ssiFiles[l].buf /\ TopDue(ssiFiles) = Due(ssiFiles[l].text)
    BY <1>4 DEF TopBuf, TopDue
  <2>4. ssiFiles[l].level = 2 * (l - 1) /\ ssiFiles[l].level <= SsiMaxLevel
    BY <2>1, <1>0 DEF Stack
  <2>5. OuterDue(ssiFiles) \cup TopDue(ssiFiles) = UNION {Due(ssiFiles[i].text) : i \in DOMAIN ssiFiles}
    <3>1. \A i \in 1..l : i \in 1..(l - 1) \/ i = l
      BY <2>1
    <3>2. \A i \in 1..(l - 1) : i \in 1..l
      BY <2>1
    <3>3. OuterDue(ssiFiles) = UNION {Due(ssiFiles[i].text) : i \in 1..(l - 1)}
      BY DEF OuterDue
    <3>4. DOMAIN ssiFiles = 1..l
      BY <1>1
    <3> HIDE DEF l
    <3> QED BY <3>1, <3>2, <3>3, <3>4, <2>1, <2>3
  <2>6. ToSet(ssiFiles[l].buf) \subseteq Due(ssiFiles[l].text)
    BY <2>3, <1>0 DEF Sent
  <2>7. UNION {ToSet(ssiFiles[i].buf) \cap Due(ssiFiles[i].text) : i \in DOMAIN ssiFiles} = ToSet(ssiFiles[l].buf)
    <3>1. \A i \in 1..l : i # l => ToSet(ssiFiles[i].buf) = {}
      BY <2>1, <2>2, <1>e
    <3>2. DOMAIN ssiFiles = 1..l
      BY <1>1
    <3> HIDE DEF l
    <3> QED BY <3>1, <3>2, <2>1, <2>6
  <2>8. ToSet(ssiOut) \cup ToSet(ssiFiles[l].buf) = ssiDue \cup OuterDue(ssiFiles) \cup TopDue(ssiFiles)
    BY <2>3, <1>0 DEF Sent
  <2>9. \A i \in DOMAIN ssiFiles : ToSet(ssiFiles[i].buf) \cap ToSet(ssiOut) = {}
    <3>1. ToSet(TopBuf(ssiFiles)) \cap ToSet(ssiOut) = {}
      <4>1. \A y \in ToSet(TopBuf(ssiFiles)) : y \in Nat /\ y \notin ToSet(ssiOut)
        BY <1>0, SetOf DEF Sent
      <4> QED BY <4>1
    <3>2. \A i \in 1..l : i # l => ToSet(ssiFiles[i].buf) = {}
      BY <2>1, <2>2, <1>e
    <3> QED BY <3>1, <3>2, <2>3, <1>1
  <2>10. 2 * (l - 1) <= SsiMaxLevel
    BY <2>4
  <2> QED BY <2>5, <2>7, <2>8, <2>9, <2>10, <1>2 DEF SsiInOrder
<1> QED BY <1>3, <1>4

-----------------------------------------------------------------------------
(* LspPage: how a page is cut up *)

\* The least number of a set.
LEMMA MinIs ==
    ASSUME NEW T, T \subseteq Nat, T # {}
    PROVE  Min(T) \in T /\ Min(T) \in Nat /\ \A n \in T : Min(T) <= n
<1>1. \E m \in T : \A n \in T : m <= n
  BY Least
<1> QED BY <1>1 DEF Min

-----------------------------------------------------------------------------
\* The characters of a page, and what begins and ends its tags.
PageCh(p, k) == IF k < Len(p) THEN p[k + 1] ELSE ""

\* A tag opens at i,
PageOpens(p, i) == i + 1 < Len(p) /\ PageCh(p, i) = "<" /\ PageCh(p, i + 1) \in Marks

\* and closes at j.
PageCloses(p, mark, j) == PageCh(p, j) = mark /\ PageCh(p, j + 1) = ">"

\* One character and what was done with it.
LspUse == [kind : {"text", "execute", "print"}, at : Nat]

\* The characters that were used.
Ats(used) == {used[k].at : k \in DOMAIN used}

\* The first a characters of the page that were not used.
Free(used, a) == (0..(a - 1)) \ Ats(used)

\* The same characters were not used.
SameFree(o, b, used, a) == Free(o, b) = Free(used, a)

\* The characters were used in their order.
InOrder(used) == \A i, j \in 1..Len(used) : i < j => used[i].at < used[j].at

\* The character k belongs to the opening of a tag, or to its closing, in F.
Lead(p, F, k) ==
    \E i \in F : /\ PageOpens(p, i) /\ i + 1 \in F /\ k \in i..(i + 3) /\ i..k \subseteq F
                 /\ \A b \in (i + 2)..k : PageCh(p, b) \in {"lua", "="}

\* The character k belongs to the closing of a tag in F.
Trail(p, F, k) == \E j \in F, mark \in Marks : PageCloses(p, mark, j) /\ k \in {j, j + 1}

\* The character k is in the tag that begins at i and is not closed before it.
InTagFrom(p, F, i, k) ==
    /\ i \in F /\ i + 1 \in F /\ i < k /\ PageOpens(p, i)
    /\ \A j \in (i + 2)..(k - 1) : ~PageCloses(p, PageCh(p, i + 1), j)

\* The tag that begins at i is one whose code is printed.
Printed(p, F, i) == \E b \in {i + 2, i + 3} : PageCh(p, b) = "=" /\ b \in F

\* No tag that is closed begins at the character k.
Plain(p, k) == PageOpens(p, k) => \A j \in (k + 2)..(Len(p) - 2) : ~PageCloses(p, PageCh(p, k + 1), j)

\* The character k may be used in that way.
UsedWell(p, F, kind, k) ==
    /\ kind = "text" => Plain(p, k)
    /\ kind # "text" => \E i \in F : InTagFrom(p, F, i, k) /\ (kind = "print" => Printed(p, F, i))

\* What was done with the first a characters of the page.
Cut(p, used, a) ==
    /\ a \in 0..Len(p) /\ used \in Seq(LspUse) /\ InOrder(used) /\ Ats(used) \subseteq 0..(a - 1)
    /\ \A k \in Free(used, a) : Lead(p, Free(used, a), k) \/ Trail(p, Free(used, a), k)
    /\ \A n \in 1..Len(used) : UsedWell(p, Free(used, a), used[n].kind, used[n].at)

\* The position a is in a tag that is not closed before it, and the state 3 is that of a tag
\* whose code is printed.
InTagNow(p, F, a, state, tag) ==
    \E i \in F : /\ InTagFrom(p, F, i, a) /\ PageCh(p, i + 1) = tag /\ (state = 3 => Printed(p, F, i))

\* The states of the processing of a page.
ReaderType ==
    [run : {"none", "kepler", "civetweb", "done", "failed", "fault", "rejected"},
     at : Nat, state : 0..3, tag : Marks \cup {""}]

\* What is known of a page, of what was done with its characters and of the reader r.
ReaderOk(p, used, r) ==
    /\ r \in ReaderType
    /\ r.run = "none" => used = <<>> /\ r = LspStart
    /\ r.run # "none" => Len(p) \in Nat \ {0}
    /\ r.run \in {"kepler", "civetweb"} => Cut(p, used, r.at)
    /\ r.run = "kepler" /\ r.state \in {2, 3} => InTagNow(p, Free(used, r.at), r.at, r.state, r.tag)
    /\ r.run \in {"done", "rejected"} => Cut(p, used, Len(p))
    /\ r.run = "rejected" => \E i \in Free(used, Len(p)) : InTagFrom(p, Free(used, Len(p)), i, Len(p))

\* The inductive invariant: the part of the page before the position is cut up as it should be,
\* and in the states 2 and 3 of the Kepler reader the position is in a tag.
LspInv == ReaderOk(lspPage, lspOut, lspReader)

\* It holds as well when more characters are not used.
LEMMA MoreFree ==
    ASSUME NEW p, NEW F, NEW G, F \subseteq G
    PROVE  /\ \A k : Lead(p, F, k) => Lead(p, G, k)
           /\ \A k : Trail(p, F, k) => Trail(p, G, k)
           /\ \A kind, k : UsedWell(p, F, kind, k) => UsedWell(p, G, kind, k)
<1>1. ASSUME NEW k, Lead(p, F, k) PROVE Lead(p, G, k)
  BY <1>1 DEF Lead
<1>2. ASSUME NEW k, Trail(p, F, k) PROVE Trail(p, G, k)
  BY <1>2 DEF Trail
<1>3. ASSUME NEW kind, NEW k, UsedWell(p, F, kind, k) PROVE UsedWell(p, G, kind, k)
  <2>1. \A i \in F : InTagFrom(p, F, i, k) => InTagFrom(p, G, i, k)
    BY DEF InTagFrom
  <2>2. \A i \in F : Printed(p, F, i) => Printed(p, G, i)
    BY DEF Printed
  <2> QED BY <2>1, <2>2, <1>3 DEF UsedWell
<1> QED BY <1>1, <1>2, <1>3

\* The three ways to use a character.
Kinds == {"text", "execute", "print"}

\* u is the use of the n characters from a position on.
IsUse(u, kind, from, n) ==
    u \in Seq(LspUse) /\ Len(u) = n /\ n \in Nat /\ \A k \in 1..n : u[k].kind = kind /\ u[k].at = from + k - 1

\* Use gives that.
LEMMA UseIs ==
    ASSUME NEW kind \in Kinds, NEW from \in Nat, NEW to \in Nat, from <= to, NEW u, u = Use(kind,
           from, to)
    PROVE  IsUse(u, kind, from, to - from)
<1>1. PICK n : n = to - from
  OBVIOUS
<1>2. n \in Nat
  BY <1>1
<1>3. u = [k \in 1..n |-> [kind |-> kind, at |-> from + k - 1]]
  BY <1>1 DEF Use
<1>4. \A k \in 1..n : from + k - 1 \in Nat
  BY <1>2
<1>5. \A k \in 1..n : [kind |-> kind, at |-> from + k - 1] \in LspUse
  BY <1>4 DEF LspUse, Kinds
<1>6. u \in [1..n -> LspUse]
  BY <1>3, <1>5
<1>7. u \in Seq(LspUse) /\ Len(u) = n
  BY <1>2, <1>6
<1>8. \A k \in 1..n : u[k].kind = kind /\ u[k].at = from + k - 1
  BY <1>3
<1>9. IsUse(u, kind, from, n)
  BY <1>2, <1>7, <1>8 DEF IsUse
<1> QED BY <1>1, <1>9

\* o is used followed by uses of the characters a..b-1.
UsedTo(used, o, kind, a, b) ==
    /\ o \in Seq(LspUse) /\ InOrder(o) /\ Ats(o) = Ats(used) \cup a..(b - 1)
    /\ \A n \in 1..Len(o) : \/ \E m \in 1..Len(used) : o[n] = used[m]
                            \/ o[n].kind = kind /\ o[n].at \in a..(b - 1)

\* More characters are used, behind all others.
LEMMA Uses ==
    ASSUME NEW used \in Seq(LspUse), InOrder(used), NEW a \in Nat, Ats(used) \subseteq 0..(a - 1),
           NEW b \in Nat, a <= b,
           NEW kind \in Kinds, NEW o, o = used \o Use(kind, a, b)
    PROVE  UsedTo(used, o, kind, a, b)
<1>1. PICK u : u = Use(kind, a, b)
  OBVIOUS
<1> DEFINE m == Len(used)
           n == Len(u)
<1>2. /\ u \in Seq(LspUse) /\ n = b - a /\ n \in Nat
      /\ \A k \in 1..n : u[k].kind = kind /\ u[k].at = a + k - 1
  <2>1. IsUse(u, kind, a, b - a)
    BY <1>1, UseIs
  <2> QED BY <2>1 DEF IsUse
<1>3. m \in Nat /\ DOMAIN used = 1..m
  OBVIOUS
<1>4. /\ o \in Seq(LspUse) /\ Len(o) = m + n
      /\ \A i \in 1..(m + n) : o[i] = IF i <= m THEN used[i] ELSE u[i - m]
  <2>1. /\ used \o u \in Seq(LspUse) /\ Len(used \o u) = Len(used) + Len(u)
        /\ \A i \in 1..(Len(used) + Len(u)) : (used \o u)[i] = IF i <= Len(used) THEN used[i] ELSE u[i - Len(used)]
    <3>1. used \in Seq(LspUse) /\ u \in Seq(LspUse)
      BY <1>2
    <3> QED BY ONLY <3>1, ConcatProperties
  <2>2. o = used \o u
    BY <1>1
  <2> QED BY ONLY <2>1, <2>2
<1> HIDE DEF m, n
<1>5. \A i \in 1..m : i \in 1..(m + n) /\ o[i] = used[i]
  BY <1>2, <1>3, <1>4
<1>6. \A i \in 1..n : m + i \in 1..(m + n) /\ o[m + i] = u[i]
  <2> TAKE i \in 1..n
  <2>1. m + i \in 1..(m + n) /\ ~(m + i <= m) /\ (m + i) - m = i
    BY <1>2, <1>3
  <2> QED BY <2>1, <1>4
<1>7. \A i \in 1..(m + n) : i \in 1..m \/ (i - m \in 1..n /\ m + (i - m) = i)
  BY <1>2, <1>3
<1>8. \A i \in 1..m : used[i].at \in 0..(a - 1) /\ used[i].at \in Ats(used)
  BY <1>3 DEF Ats
<1>9. \A k \in 1..n : a + k - 1 \in a..(b - 1)
  BY <1>2
<1>10. \A y \in a..(b - 1) : y - a + 1 \in 1..n /\ a + (y - a + 1) - 1 = y
  BY <1>2
<1>11. DOMAIN o = 1..(m + n)
  BY <1>4
<1>12. Ats(o) = Ats(used) \cup a..(b - 1)
  <2>1. ASSUME NEW i \in 1..(m + n) PROVE o[i].at \in Ats(used) \cup a..(b - 1)
    <3>1. CASE i \in 1..m
      BY <3>1, <1>5, <1>8
    <3>2. CASE i - m \in 1..n /\ m + (i - m) = i
      BY <3>2, <1>2, <1>6, <1>9
    <3> QED BY <3>1, <3>2, <1>7
  <2>2. ASSUME NEW i \in 1..m PROVE used[i].at \in Ats(o)
    BY <1>5, <1>11 DEF Ats
  <2>3. ASSUME NEW y \in a..(b - 1) PROVE y \in Ats(o)
    <3>1. m + (y - a + 1) \in 1..(m + n) /\ o[m + (y - a + 1)].at = y
      BY <1>2, <1>6, <1>10
    <3> QED BY <3>1, <1>11 DEF Ats
  <2>4. Ats(o) \subseteq Ats(used) \cup a..(b - 1)
    BY <2>1, <1>11 DEF Ats
  <2>5. Ats(used) \subseteq Ats(o)
    BY <2>2, <1>3 DEF Ats
  <2> QED BY <2>3, <2>4, <2>5
<1>13. InOrder(o)
  <2> SUFFICES ASSUME NEW i \in 1..(m + n), NEW j \in 1..(m + n), i < j PROVE o[i].at < o[j].at
    BY <1>4 DEF InOrder
  <2>1. CASE j \in 1..m
    <3>1. i \in 1..m
      BY <2>1, <1>3
    <3> QED BY <2>1, <3>1, <1>5 DEF InOrder, m
  <2>2. CASE j - m \in 1..n /\ m + (j - m) = j
    <3>0. o[j].at = a + (j - m) - 1
      BY <2>2, <1>2, <1>6
    <3>1. CASE i \in 1..m
      <4>1. o[i].at \in 0..(a - 1)
        BY <3>1, <1>5, <1>8
      <4>2. PICK d \in 1..n : d = j - m
        BY <2>2
      <4>3. o[j].at = a + d - 1
        BY <4>2, <3>0
      <4>4. \A x \in 0..(a - 1) : x < a + d - 1
        <5>1. a \in Nat /\ d \in Nat /\ d >= 1
          BY <4>2, <1>2
        <5> QED BY ONLY <5>1
      <4> QED BY <4>1, <4>3, <4>4
    <3>2. CASE i - m \in 1..n /\ m + (i - m) = i
      <4>1. o[i].at = a + (i - m) - 1
        BY <3>2, <1>2, <1>6
      <4> QED BY <4>1, <3>0, <2>2, <3>2, <1>3
    <3> QED BY <3>1, <3>2, <1>7
  <2> QED BY <2>1, <2>2, <1>7
<1>14. ASSUME NEW i \in 1..(m + n)
       PROVE  (\E k \in 1..m : o[i] = used[k]) \/ (o[i].kind = kind /\ o[i].at \in a..(b - 1))
  <2>1. CASE i \in 1..m
    BY <2>1, <1>5
  <2>2. CASE i - m \in 1..n /\ m + (i - m) = i
    BY <2>2, <1>2, <1>6, <1>9
  <2> QED BY <2>1, <2>2, <1>7
<1> QED BY <1>4, <1>12, <1>13, <1>14 DEF UsedTo, m

\* The characters a..b-1 are used in one way.
LEMMA CutUse ==
    ASSUME NEW p, Len(p) \in Nat, NEW used, NEW a, Cut(p, used, a), NEW b \in a..Len(p),
           NEW kind \in Kinds,
           \A k \in a..(b - 1) : UsedWell(p, Free(used, a), kind, k), NEW o, o = used \o Use(kind, a, b)
    PROVE  Cut(p, o, b) /\ SameFree(o, b, used, a)
<1>1. a \in Nat /\ a \in 0..Len(p) /\ b \in Nat /\ a <= b /\ b \in 0..Len(p)
  BY DEF Cut
<1>2. UsedTo(used, o, kind, a, b)
  BY <1>1, Uses DEF Cut
<1>3. Ats(used) \subseteq 0..(a - 1) /\ Ats(o) = Ats(used) \cup a..(b - 1)
  BY <1>2 DEF UsedTo, Cut
<1>4. 0..(b - 1) = 0..(a - 1) \cup a..(b - 1) /\ \A y \in a..(b - 1) : y \notin 0..(a - 1)
  BY <1>1
<1>5. Free(o, b) = Free(used, a)
  BY <1>3, <1>4 DEF Free
<1>6. Ats(o) \subseteq 0..(b - 1)
  BY <1>3, <1>4
<1>7. \A n \in 1..Len(o) : UsedWell(p, Free(used, a), o[n].kind, o[n].at)
  BY <1>2 DEF UsedTo, Cut
<1>8. \A k \in Free(used, a) : Lead(p, Free(used, a), k) \/ Trail(p, Free(used, a), k)
  BY DEF Cut
<1>9. o \in Seq(LspUse) /\ InOrder(o)
  BY <1>2 DEF UsedTo
<1> QED BY <1>1, <1>5, <1>6, <1>7, <1>8, <1>9 DEF Cut, SameFree

\* The characters a..b-1 are passed without using them.
LEMMA CutPass ==
    ASSUME NEW p, Len(p) \in Nat, NEW used, NEW a, Cut(p, used, a), NEW b \in a..Len(p), NEW G,
           G = a..(b - 1),
           \A k \in G : Lead(p, G, k) \/ Trail(p, G, k)
    PROVE  Cut(p, used, b) /\ Free(used, b) = Free(used, a) \cup G
<1>1. a \in Nat /\ a \in 0..Len(p) /\ b \in Nat /\ a <= b /\ b \in 0..Len(p)
  BY DEF Cut
<1>2. Ats(used) \subseteq 0..(a - 1)
  BY DEF Cut
<1>3. 0..(b - 1) = 0..(a - 1) \cup a..(b - 1) /\ \A y \in a..(b - 1) : y \notin 0..(a - 1)
  BY <1>1
<1>4. Free(used, b) = Free(used, a) \cup G
  BY <1>2, <1>3 DEF Free
<1>5. Ats(used) \subseteq 0..(b - 1)
  BY <1>2, <1>3
<1>6. PICK F : F = Free(used, a)
  OBVIOUS
<1>7. PICK H : H = Free(used, b)
  OBVIOUS
<1>8. F \subseteq H /\ G \subseteq H /\ H = F \cup G
  BY <1>4, <1>6, <1>7
<1>9. \A k \in H : Lead(p, H, k) \/ Trail(p, H, k)
  <2> TAKE k \in H
  <2>1. CASE k \in F
    <3>1. Lead(p, F, k) \/ Trail(p, F, k)
      BY <2>1, <1>6 DEF Cut
    <3> QED BY <3>1, <1>8, MoreFree
  <2>2. CASE k \in G
    BY <2>2, <1>8, MoreFree
  <2> QED BY <2>1, <2>2, <1>8
<1>10. \A n \in 1..Len(used) : UsedWell(p, H, used[n].kind, used[n].at)
  <2>1. \A n \in 1..Len(used) : UsedWell(p, F, used[n].kind, used[n].at)
    BY <1>6 DEF Cut
  <2> QED BY <2>1, <1>8, MoreFree
<1>11. used \in Seq(LspUse) /\ InOrder(used)
  BY DEF Cut
<1> QED BY <1>1, <1>4, <1>5, <1>7, <1>9, <1>10, <1>11 DEF Cut

\* The characters and tags of the model are those of its page.
LEMMA PageIs ==
    /\ \A k : Ch(k) = PageCh(lspPage, k)
    /\ \A i : Opens(i) <=> PageOpens(lspPage, i)
    /\ \A mark, j : ClosingAt(mark, j) <=> PageCloses(lspPage, mark, j)
BY DEF Ch, PageCh, Opens, PageOpens, ClosingAt, PageCloses

\* A character is one of the page, unless it is the zero byte behind it.
LEMMA Within == ASSUME NEW p, NEW k, PageCh(p, k) # "" PROVE k < Len(p)
BY DEF PageCh

\* The invariant implies the property.
LEMMA LspSafe == LspInv => PageExact
<1> SUFFICES ASSUME LspInv PROVE PageExact
  OBVIOUS
<1>1. PICK p : p = lspPage
  OBVIOUS
<1>2. PICK F : F = Free(lspOut, Len(p))
  OBVIOUS
<1>3. /\ \A k : Ch(k) = PageCh(p, k)
      /\ \A i : Opens(i) <=> PageOpens(p, i)
      /\ \A mark, j : ClosingAt(mark, j) <=> PageCloses(p, mark, j)
  BY <1>1, PageIs
<1>4. Unused = F
  BY <1>1, <1>2 DEF Unused, UsedAt, Free, Ats
<1>5. CASE lspReader.run = "rejected"
  <2>1. PICK i \in F : InTagFrom(p, F, i, Len(p))
    BY <1>1, <1>2, <1>5 DEF LspInv, ReaderOk
  <2>2. Len(p) \in Nat /\ Len(lspPage) = Len(p)
    BY <1>1, <1>5 DEF LspInv, ReaderOk
  <2>3. \A j \in (i + 2)..(Len(p) - 2) : j \in (i + 2)..(Len(p) - 1)
    <3>1. i \in Nat
      BY <1>2, <2>2 DEF Free
    <3> QED BY <3>1, <2>2
  <2>4. \A j \in (i + 2)..(Len(lspPage) - 2) : ~ClosingAt(Ch(i + 1), j)
    BY <2>1, <2>2, <2>3, <1>3 DEF InTagFrom
  <2>5. Opens(i) /\ i + 1 \in Unused /\ i \in Unused
    BY <2>1, <1>3, <1>4 DEF InTagFrom
  <2> QED BY <2>4, <2>5, <1>5 DEF PageExact
<1>6. CASE lspReader.run = "done"
  <2>0. Cut(p, lspOut, Len(p)) /\ Len(p) \in Nat /\ Len(lspPage) = Len(p)
    BY <1>1, <1>6 DEF LspInv, ReaderOk
  <2>1. /\ lspOut \in Seq(LspUse) /\ InOrder(lspOut) /\ Len(lspOut) \in Nat
        /\ DOMAIN lspOut = 1..Len(lspOut)
    BY <2>0 DEF Cut
  <2>2. \A k \in 1..Len(lspOut) - 1 : lspOut[k].at < lspOut[k + 1].at
    <3>1. \A k \in 1..Len(lspOut) - 1 : k \in 1..Len(lspOut) /\ k + 1 \in 1..Len(lspOut) /\ k < k + 1
      BY <2>1
    <3> QED BY <3>1, <2>1 DEF InOrder
  <2>3. \A k : Lead(p, F, k) => IsOpening(k)
    BY <1>3, <1>4 DEF Lead, IsOpening
  <2>4. \A k : Trail(p, F, k) => IsClosing(k)
    BY <1>3, <1>4 DEF Trail, IsClosing
  <2>5. \A k \in Unused : IsOpening(k) \/ IsClosing(k)
    BY <2>0, <2>3, <2>4, <1>2, <1>4 DEF Cut
  <2>6. ASSUME NEW n \in DOMAIN lspOut
        PROVE  LET k == lspOut[n].at IN
               IF lspOut[n].kind = "text"
               THEN Opens(k) => \A j \in (k + 2)..(Len(lspPage) - 2): ~ClosingAt(Ch(k + 1), j)
               ELSE \E i \in Unused:
                       /\ i < k /\ Opens(i) /\ IsOpening(i)
                       /\ \A j \in (i + 2)..(k - 1): ~ClosingAt(Ch(i + 1), j)
                       /\ lspOut[n].kind = "print" => \E b \in {i + 2, i + 3}: Ch(b) = "=" /\ b \in Unused
    <3>0. PICK k : k = lspOut[n].at
      OBVIOUS
    <3>1. UsedWell(p, F, lspOut[n].kind, k)
      BY <2>0, <2>1, <2>6, <3>0, <1>2 DEF Cut
    <3>2. CASE lspOut[n].kind = "text"
      <4>1. Plain(p, k)
        BY <3>1, <3>2 DEF UsedWell
      <4>2. Opens(k) => \A j \in (k + 2)..(Len(lspPage) - 2): ~ClosingAt(Ch(k + 1), j)
        BY <4>1, <1>3, <2>0 DEF Plain
      <4> QED BY <4>2, <3>0, <3>2
    <3>3. CASE lspOut[n].kind # "text"
      <4>1. PICK i \in F : InTagFrom(p, F, i, k) /\ (lspOut[n].kind = "print" => Printed(p, F, i))
        BY <3>1, <3>3 DEF UsedWell
      <4>2. i < k /\ Opens(i) /\ \A j \in (i + 2)..(k - 1): ~ClosingAt(Ch(i + 1), j)
        BY <4>1, <1>3 DEF InTagFrom
      <4>3. IsOpening(i)
        <5>0. i \in Nat
          BY <1>2, <2>0 DEF Free
        <5>1. i \in i..(i + 3) /\ (\A y \in i..i : y = i) /\ \A y : y \notin (i + 2)..i
          BY <5>0
        <5>2. i + 1 \in F /\ i..i \subseteq F
          BY <4>1, <5>1 DEF InTagFrom
        <5> QED BY <4>2, <5>1, <5>2, <1>4 DEF IsOpening
      <4>4. lspOut[n].kind = "print" => \E b \in {i + 2, i + 3}: Ch(b) = "=" /\ b \in Unused
        BY <4>1, <1>3, <1>4 DEF Printed
      <4> QED BY <4>2, <4>3, <4>4, <3>0, <3>3, <1>4
    <3> QED BY <3>2, <3>3
  <2> QED BY <2>2, <2>5, <2>6, <1>6 DEF PageExact
<1> QED BY <1>5, <1>6 DEF PageExact

\* No page is processed at the beginning.
LEMMA LspBegins == LspInit => LspInv
<1>1. LspStart \in ReaderType /\ LspStart.run = "none"
  BY DEF LspStart, ReaderType
<1> QED BY <1>1 DEF LspInit, LspInv, ReaderOk

\* The syntax of a page is found from its first characters (run_lsp).
LEMMA ChooseStep ==
    ASSUME LspInv, lspReader.run = "none", NEW page \in LspPages, ChooseSyntax(page)
    PROVE  LspInv'
<1>1. PICK r : r = lspReader'
  OBVIOUS
<1>2. lspPage' = page /\ lspOut' = <<>> /\ Len(page) \in Nat \ {0}
  BY LspTextAssumption DEF ChooseSyntax, LspInv, ReaderOk
<1>3. r \in ReaderType /\ r.run \in {"kepler", "civetweb"} /\ r.at = 0 /\ r.state = 0
  <2>1. PICK y : y = IF page[1] = "<" /\ (Len(page) > 1 => page[2] # "?") THEN "kepler" ELSE "civetweb"
    OBVIOUS
  <2>2. y \in {"kepler", "civetweb"}
    BY <2>1
  <2>3. r = [LspStart EXCEPT !.run = y]
    BY <2>1, <1>1 DEF ChooseSyntax
  <2>4. r = [run |-> y, at |-> 0, state |-> 0, tag |-> ""]
    BY <2>3 DEF LspStart
  <2>5. r.run = y /\ r.at = 0 /\ r.state = 0
    BY <2>4
  <2>6. r \in ReaderType
    <3>1. /\ y \in {"none", "kepler", "civetweb", "done", "failed", "fault", "rejected"}
          /\ 0 \in 0..3 /\ "" \in Marks \cup {""}
      BY <2>2
    <3> QED BY <3>1, <2>4 DEF ReaderType
  <2> QED BY <2>2, <2>5, <2>6
<1>4. Cut(page, <<>>, 0)
  <2>1. Free(<<>>, 0) = {} /\ Ats(<<>>) = {}
    BY DEF Free, Ats
  <2> QED BY <2>1, <1>2 DEF Cut, InOrder
<1>5. ReaderOk(page, <<>>, r)
  BY <1>2, <1>3, <1>4 DEF ReaderOk
<1> QED BY <1>1, <1>2, <1>5 DEF LspInv

\* Nothing changes.
LEMMA StillExact == ASSUME LspInv, UNCHANGED lspVars PROVE LspInv'
BY DEF LspInv, lspVars

\* Processing goes on with the same page.
LEMMA GoesOn ==
    ASSUME NEW p, p = lspPage, lspPage' = lspPage, NEW o, o = lspOut', NEW r, r = lspReader',
           ReaderOk(p, o, r)
    PROVE  LspInv'
BY DEF LspInv

\* Nothing is claimed of a page that failed.
LEMMA Ended ==
    ASSUME NEW p, Len(p) \in Nat \ {0}, NEW o, NEW r \in ReaderType, r.run \in {"failed", "fault"}
    PROVE  ReaderOk(p, o, r)
BY DEF ReaderOk

\* What is known while the page is processed in CivetWeb's syntax.
LEMMA CivetNow ==
    ASSUME LspInv, lspReader.run = "civetweb", NEW p, p = lspPage, NEW a, a = lspReader.at
    PROVE  Len(p) \in Nat \ {0} /\ Cut(p, lspOut, a) /\ a \in 0..Len(p) /\ lspReader \in ReaderType
<1>1. Len(p) \in Nat \ {0} /\ Cut(p, lspOut, a) /\ lspReader \in ReaderType
  BY DEF LspInv, ReaderOk
<1>2. a \in 0..Len(p)
  BY <1>1 DEF Cut
<1> QED BY <1>1, <1>2

\* A position that is not one of ClosedTags is text.
LEMMA PlainText ==
    ASSUME LspInv, lspReader.run = "civetweb", NEW k \in Nat, lspReader.at <= k, k \notin ClosedTags
    PROVE  Plain(lspPage, k)
<1>0. PICK p : p = lspPage
  OBVIOUS
<1>1. Len(p) \in Nat /\ lspReader.at \in Nat
  BY <1>0, CivetNow
<1> SUFFICES ASSUME PageOpens(p, k), NEW j \in (k + 2)..(Len(p) - 2), PageCloses(p, PageCh(p, k + 1), j)
             PROVE  FALSE
  BY <1>0 DEF Plain
<1>2. k \in lspReader.at..Len(p) - 2 /\ j \in (k + 1)..Len(p) - 2
  BY <1>1 DEF PageOpens
<1>3. Opens(k) /\ Ch(j) = Ch(k + 1) /\ Ch(j + 1) = ">"
  BY <1>0, PageIs DEF PageCloses
<1>4. j \in ClosesTag(k)
  BY <1>0, <1>2, <1>3 DEF ClosesTag
<1>5. k \in ClosedTags
  BY <1>0, <1>2, <1>3, <1>4 DEF ClosedTags
<1> QED BY <1>5

\* What stands between the two characters that open a tag and its code.
LEMMA CodeBegins ==
    ASSUME NEW i \in Nat, NEW c, c = i + 2 + Skip(i) + (IF IsVar(i) THEN 1 ELSE 0), NEW p,
           p = lspPage
    PROVE  /\ c \in (i + 2)..(i + 4) /\ \A b \in (i + 2)..(c - 1) : PageCh(p, b) \in {"lua", "="}
           /\ IsVar(i) => \E b \in {i + 2, i + 3} : PageCh(p, b) = "=" /\ b \in (i + 2)..(c - 1)
<1>0. PICK s : s = Skip(i)
  OBVIOUS
<1>1. (s = 1 /\ PageCh(p, i + 2) = "lua") \/ s = 0
  BY <1>0, PageIs DEF Skip
<1>2. IsVar(i) <=> PageCh(p, i + s + 2) = "="
  BY <1>0, PageIs DEF IsVar
<1>3. s \in {0, 1}
  BY <1>1
<1>4. CASE IsVar(i)
  <2>1. c = i + s + 3
    BY <1>0, <1>3, <1>4
  <2>2. c \in (i + 2)..(i + 4) /\ i + s + 2 \in {i + 2, i + 3} /\ i + s + 2 \in (i + 2)..(c - 1)
    BY <2>1, <1>3
  <2>3. \A b \in (i + 2)..(c - 1) : b = i + s + 2 \/ (b = i + 2 /\ s = 1)
    BY <2>1, <1>3
  <2> QED BY <2>2, <2>3, <1>1, <1>2, <1>4
<1>5. CASE ~IsVar(i)
  <2>1. c = i + s + 2
    BY <1>0, <1>3, <1>5
  <2>2. c \in (i + 2)..(i + 4)
    BY <2>1, <1>3
  <2>3. \A b \in (i + 2)..(c - 1) : b = i + 2 /\ s = 1
    BY <2>1, <1>3
  <2> QED BY <2>2, <2>3, <1>1, <1>5
<1> QED BY <1>4, <1>5

\* The opening of a tag, up to its code.
LEMMA LeadIs ==
    ASSUME NEW p, NEW i \in Nat, PageOpens(p, i), NEW c \in (i + 2)..(i + 4),
           \A b \in (i + 2)..(c - 1) : PageCh(p, b) \in {"lua", "="}, NEW G, G = i..(c - 1)
    PROVE  i \in G /\ i + 1 \in G /\ \A k \in G : Lead(p, G, k)
<1>1. i \in G /\ i + 1 \in G
  OBVIOUS
<1>2. ASSUME NEW k \in G PROVE Lead(p, G, k)
  <2>1. k \in i..(i + 3) /\ i..k \subseteq G /\ \A b \in (i + 2)..k : b \in (i + 2)..(c - 1)
    OBVIOUS
  <2> QED BY <2>1, <1>1 DEF Lead
<1> QED BY <1>1, <1>2

\* The two characters that close a tag.
LEMMA TrailIs ==
    ASSUME NEW p, NEW j \in Nat, NEW mark \in Marks, PageCloses(p, mark, j), NEW G, G = j..(j + 1)
    PROVE  \A k \in G : Trail(p, G, k)
<1>1. j \in G /\ \A k \in G : k \in {j, j + 1}
  OBVIOUS
<1> QED BY <1>1 DEF Trail

\* The text before the next tag is written and its code executed (run_lsp_civetweb).
LEMMA RunTagStep == ASSUME LspInv, NEW ok \in BOOLEAN, RunTag(ok) PROVE LspInv'
<1>0. lspReader.run = "civetweb" /\ ClosedTags # {} /\ lspPage' = lspPage
  BY DEF RunTag
<1>p. PICK p : p = lspPage
  OBVIOUS
<1>a. PICK a : a = lspReader.at
  OBVIOUS
<1>r. PICK r : r = lspReader'
  OBVIOUS
<1>o. PICK o : o = lspOut'
  OBVIOUS
<1>1. Len(p) \in Nat \ {0} /\ Cut(p, lspOut, a) /\ a \in 0..Len(p) /\ lspReader \in ReaderType
  BY <1>0, <1>p, <1>a, CivetNow
<1>i. PICK i : i = Min(ClosedTags)
  OBVIOUS
<1>j. PICK j : j = Min(ClosesTag(i))
  OBVIOUS
<1>c. PICK c : c = i + 2 + Skip(i) + (IF IsVar(i) THEN 1 ELSE 0)
  OBVIOUS
<1>2. i \in Nat /\ i \in ClosedTags /\ \A k \in ClosedTags : i <= k
  <2>1. ClosedTags \subseteq Nat
    BY <1>1, <1>p, <1>a DEF ClosedTags
  <2> QED BY <2>1, <1>0, <1>i, MinIs
<1>3. i \in a..Len(p) - 2 /\ PageOpens(p, i) /\ ClosesTag(i) # {}
  <2>1. i \in lspReader.at..Len(lspPage) - 1 /\ Opens(i) /\ ClosesTag(i) # {}
    <3>1. i \in ClosedTags
      BY <1>2
    <3> QED BY ONLY <3>1 DEF ClosedTags
  <2>2. i + 1 < Len(p)
    BY <2>1, <1>p DEF Opens
  <2>3. i \in a..Len(p) - 2
    BY <2>1, <2>2, <1>1, <1>a, <1>p
  <2> QED BY <2>1, <2>3, <1>p, PageIs
<1>4. ClosesTag(i) \subseteq Nat
  BY <1>2, <1>p, <1>1 DEF ClosesTag
<1>5. j \in Nat /\ j \in ClosesTag(i) /\ \A k \in ClosesTag(i) : j <= k
  BY <1>3, <1>4, <1>j, MinIs
<1>6. j \in (i + 1)..Len(p) - 2 /\ PageCloses(p, PageCh(p, i + 1), j)
  <2>1. /\ j \in (IF IsVar(i) THEN i + 2 ELSE i + 1)..Len(p) - 2 /\ Ch(j) = Ch(i + 1)
        /\ Ch(j + 1) = ">"
    BY <1>5, <1>p DEF ClosesTag
  <2>2. j \in (i + 1)..Len(p) - 2
    <3>1. CASE IsVar(i)
      BY <3>1, <2>1, <1>1, <1>2
    <3>2. CASE ~IsVar(i)
      BY <3>2, <2>1, <1>1, <1>2
    <3> QED BY <3>1, <3>2
  <2> QED BY <2>1, <2>2, <1>p, PageIs DEF PageCloses
<1>7. \A k \in (i + 2)..(j - 1) : ~PageCloses(p, PageCh(p, i + 1), k)
  <2> SUFFICES ASSUME NEW k \in (i + 2)..(j - 1), PageCloses(p, PageCh(p, i + 1), k) PROVE FALSE
    OBVIOUS
  <2>1. k \in (IF IsVar(i) THEN i + 2 ELSE i + 1)..Len(p) - 2
    <3>1. k \in (i + 2)..Len(p) - 2 /\ k \in (i + 1)..Len(p) - 2
      BY <1>1, <1>2, <1>5, <1>6
    <3> QED BY <3>1
  <2>2. k \in ClosesTag(i)
    BY <2>1, <1>p, PageIs DEF ClosesTag, PageCloses
  <2> QED BY <2>2, <1>2, <1>5
<1>8. /\ c \in (i + 2)..(i + 4) /\ \A b \in (i + 2)..(c - 1) : PageCh(p, b) \in {"lua", "="}
      /\ IsVar(i) => \E b \in {i + 2, i + 3} : PageCh(p, b) = "=" /\ b \in (i + 2)..(c - 1)
  BY <1>2, <1>c, <1>p, CodeBegins
<1>9. PICK kind : kind = IF IsVar(i) THEN "print" ELSE "execute"
  OBVIOUS
<1>10. PICK o1 : o1 = lspOut \o Use("text", a, i)
  OBVIOUS
<1>11. CASE c > j \/ ~ok
  <2>1. r = [lspReader EXCEPT !.run = "fault"] \/ r = [lspReader EXCEPT !.run = "failed"]
    BY <1>11, <1>r, <1>i, <1>j, <1>c DEF RunTag, LspEnds
  <2>2. r \in ReaderType /\ r.run \in {"failed", "fault"}
    BY <2>1, <1>1 DEF ReaderType
  <2>3. ReaderOk(p, o, r)
    BY <2>2, <1>1, Ended
  <2> QED BY <2>3, <1>0, <1>p, <1>o, <1>r, GoesOn
<1>12. CASE ~(c > j) /\ ok
  <2>1. o = o1 \o Use(kind, c, j) /\ r = [lspReader EXCEPT !.at = j + 2]
    BY <1>12, <1>r, <1>o, <1>a, <1>i, <1>j, <1>c, <1>9, <1>10 DEF RunTag, BehindTag
  <2>2. PICK F : F = Free(lspOut, a)
    OBVIOUS
  <2>3. Cut(p, o1, i) /\ Free(o1, i) = F
    <3>1. \A k \in a..(i - 1) : UsedWell(p, Free(lspOut, a), "text", k)
      <4> TAKE k \in a..(i - 1)
      <4>1. k \in Nat /\ lspReader.at <= k /\ k \notin ClosedTags
        BY <1>1, <1>2, <1>a
      <4> QED BY <4>1, <1>0, <1>p, PlainText DEF UsedWell
    <3>2. i \in a..Len(p) /\ "text" \in Kinds /\ Len(p) \in Nat
      BY <1>1, <1>3 DEF Kinds
    <3>3. PICK text : text = "text"
      OBVIOUS
    <3>4. /\ text \in Kinds /\ o1 = lspOut \o Use(text, a, i)
          /\ \A k \in a..(i - 1) : UsedWell(p, Free(lspOut, a), text, k)
      BY <3>1, <3>2, <3>3, <1>10
    <3>5. Cut(p, o1, i) /\ Free(o1, i) = Free(lspOut, a)
      <4>1. Cut(p, o1, i) /\ SameFree(o1, i, lspOut, a)
        BY <3>2, <3>4, <1>1, CutUse
      <4> QED BY <4>1 DEF SameFree
    <3> QED BY <3>5, <2>2
  <2>4. PICK G : G = i..(c - 1)
    OBVIOUS
  <2>5. i \in G /\ i + 1 \in G /\ \A k \in G : Lead(p, G, k)
    BY <2>4, <1>2, <1>3, <1>8, LeadIs
  <2>6. c \in i..Len(p) /\ c \in Nat /\ j \in c..Len(p) /\ j + 2 \in j..Len(p) /\ Len(p) \in Nat
    BY <1>1, <1>2, <1>6, <1>8, <1>12
  <2>7. Cut(p, o1, c) /\ Free(o1, c) = F \cup G
    BY <2>3, <2>4, <2>5, <2>6, CutPass
  <2>8. PICK H : H = F \cup G
    OBVIOUS
  <2>9. kind \in Kinds
    BY <1>9 DEF Kinds
  <2>10. \A k \in c..(j - 1) : UsedWell(p, Free(o1, c), kind, k)
    <3> TAKE k \in c..(j - 1)
    <3>1. i < k /\ k \in Nat /\ \A y \in (i + 2)..(k - 1) : y \in (i + 2)..(j - 1)
      BY <1>2, <1>5, <1>8
    <3>2. i \in H /\ i + 1 \in H
      BY <2>5, <2>8
    <3>3. InTagFrom(p, H, i, k)
      BY <3>1, <3>2, <1>3, <1>7 DEF InTagFrom
    <3>4. kind = "print" => Printed(p, H, i)
      <4>1. kind = "print" => IsVar(i)
        BY <1>9
      <4>2. (i + 2)..(c - 1) \subseteq H
        BY <2>4, <2>8, <1>2
      <4> QED BY <4>1, <4>2, <1>8 DEF Printed
    <3>5. kind # "text"
      BY <1>9
    <3> QED BY <3>2, <3>3, <3>4, <3>5, <2>7, <2>8 DEF UsedWell
  <2>11. Cut(p, o, j)
    BY <2>1, <2>6, <2>7, <2>9, <2>10, CutUse
  <2>12. PICK T : T = j..(j + 1)
    OBVIOUS
  <2>13. T = j..((j + 2) - 1) /\ \A k \in T : Trail(p, T, k)
    <3>1. PageCh(p, i + 1) \in Marks
      BY <1>3 DEF PageOpens
    <3>2. (j + 2) - 1 = j + 1
      BY <1>5
    <3> QED BY <3>1, <3>2, <2>12, <1>5, <1>6, TrailIs
  <2>14. Cut(p, o, j + 2)
    BY <2>6, <2>11, <2>13, CutPass
  <2>15. r \in ReaderType /\ r.run = "civetweb" /\ r.at = j + 2
    <3>1. j + 2 \in Nat
      BY <1>5
    <3> QED BY <3>1, <2>1, <1>0, <1>1 DEF ReaderType
  <2>16. ReaderOk(p, o, r)
    BY <2>14, <2>15, <1>1 DEF ReaderOk
  <2> QED BY <2>16, <1>0, <1>p, <1>o, <1>r, GoesOn
<1> QED BY <1>11, <1>12

\* The text behind the last tag is written (run_lsp_civetweb).
LEMMA RunRestStep == ASSUME LspInv, RunRest PROVE LspInv'
<1>0. lspReader.run = "civetweb" /\ ClosedTags = {} /\ lspPage' = lspPage
  BY DEF RunRest
<1>p. PICK p : p = lspPage
  OBVIOUS
<1>a. PICK a : a = lspReader.at
  OBVIOUS
<1>r. PICK r : r = lspReader'
  OBVIOUS
<1>o. PICK o : o = lspOut'
  OBVIOUS
<1>1. Len(p) \in Nat \ {0} /\ Cut(p, lspOut, a) /\ a \in 0..Len(p) /\ lspReader \in ReaderType
  BY <1>0, <1>p, <1>a, CivetNow
<1>2. o = lspOut \o Use("text", a, Len(p)) /\ r = [lspReader EXCEPT !.run = "done"]
  BY <1>o, <1>r, <1>a, <1>p DEF RunRest, LspEnds
<1>3. \A k \in a..(Len(p) - 1) : UsedWell(p, Free(lspOut, a), "text", k)
  <2> TAKE k \in a..(Len(p) - 1)
  <2>1. k \in Nat /\ lspReader.at <= k /\ k \notin ClosedTags
    BY <1>0, <1>1, <1>a
  <2> QED BY <2>1, <1>0, <1>p, PlainText DEF UsedWell
<1>4. Cut(p, o, Len(p))
  <2>1. Len(p) \in a..Len(p) /\ "text" \in Kinds /\ Len(p) \in Nat
    BY <1>1 DEF Kinds
  <2> QED BY <2>1, <1>1, <1>2, <1>3, CutUse
<1>5. r \in ReaderType /\ r.run = "done"
  BY <1>1, <1>2 DEF ReaderType
<1>6. ReaderOk(p, o, r)
  BY <1>1, <1>4, <1>5 DEF ReaderOk
<1> QED BY <1>6, <1>0, <1>p, <1>o, <1>r, GoesOn

\* What is known while the reader of Kepler pages is called.
LEMMA KeplerNow ==
    ASSUME LspInv, lspReader.run = "kepler", NEW p, p = lspPage, NEW a, a = lspReader.at
    PROVE  /\ Len(p) \in Nat \ {0} /\ Cut(p, lspOut, a) /\ a \in 0..Len(p) /\ a \in Nat
           /\ lspReader \in ReaderType /\ lspReader.state \in 0..3
           /\ Left \in Nat /\ Left <= Len(p) - a /\ (Left = 0 => a = Len(p))
           /\ (Left <= 1 => Len(p) <= a + 1)
<1>1. Len(p) \in Nat \ {0} /\ Cut(p, lspOut, a) /\ lspReader \in ReaderType
  BY DEF LspInv, ReaderOk
<1>2. a \in 0..Len(p) /\ lspReader.state \in 0..3
  BY <1>1 DEF Cut, ReaderType
<1>3. PICK d : d = Len(p) - a
  OBVIOUS
<1>4. d \in Nat /\ LspBlock \in Nat /\ LspBlock > 1
  BY <1>1, <1>2, <1>3, LspPageAssumption
<1>5. Left = Min({d, LspBlock})
  BY <1>3 DEF Left
<1>6. Left \in {d, LspBlock} /\ Left \in Nat /\ Left <= d
  <2>1. {d, LspBlock} \subseteq Nat /\ {d, LspBlock} # {}
    BY <1>4
  <2>2. PICK T : T = {d, LspBlock}
    OBVIOUS
  <2>3. Left \in T /\ Left \in Nat /\ \A n \in T : Left <= n
    BY <2>1, <2>2, <1>5, MinIs
  <2> QED BY <2>2, <2>3
<1> QED BY <1>1, <1>2, <1>3, <1>4, <1>6

\* How far the reader looks for a character, from the d-th on.
NextOf(d, char) == Min({i \in d..Left : i = Left \/ Ch(lspReader.at + i) = char})

\* It finds the first one, or the end of the block.
LEMMA NextIs ==
    ASSUME Left \in Nat, NEW d \in 0..Left, NEW char, NEW n, n = NextOf(d, char)
    PROVE  n \in d..Left /\ \A y \in d..(n - 1) : Ch(lspReader.at + y) # char
<1> DEFINE T == {i \in d..Left : i = Left \/ Ch(lspReader.at + i) = char}
<1>1. T \subseteq Nat /\ Left \in T
  OBVIOUS
<1>2. n = Min(T)
  BY DEF NextOf
<1>3. T # {}
  BY <1>1
<1>4. n \in T /\ n \in Nat /\ \A y \in T : n <= y
  <2> HIDE DEF T
  <2> QED BY <1>1, <1>2, <1>3, MinIs
<1>5. ASSUME NEW y \in d..(n - 1), Ch(lspReader.at + y) = char PROVE FALSE
  <2>1. y \in T
    BY <1>4, <1>5
  <2>2. ~(n <= y)
    BY <1>4, <1>5
  <2> HIDE DEF T
  <2> QED BY <2>1, <2>2, <1>4
<1> QED BY <1>4, <1>5

\* Which way the reader uses characters in a state.
KindIn(state) == IF state = 1 THEN "text" ELSE IF state = 2 THEN "execute" ELSE "print"

\* The next n characters are handed over.
LEMMA ForwardIs ==
    ASSUME LspInv, lspReader.run = "kepler", lspReader.state \in 1..3, NEW p, p = lspPage, NEW a,
           a = lspReader.at,
           NEW n \in 1..Left, Forward(n), lspPage' = lspPage, NEW F, F = Free(lspOut, a),
           NEW kind, kind = KindIn(lspReader.state), \A k \in a..(a + n - 1) : UsedWell(p, F, kind, k),
           lspReader.state \in {2, 3} => InTagNow(p, F, a + n, lspReader.state, lspReader.tag)
    PROVE  LspInv'
<1>1. /\ Len(p) \in Nat \ {0} /\ Cut(p, lspOut, a) /\ a \in 0..Len(p) /\ a \in Nat
      /\ lspReader \in ReaderType /\ Left \in Nat /\ Left <= Len(p) - a
  BY KeplerNow
<1>2. PICK b : b = a + n
  OBVIOUS
<1>3. b \in a..Len(p) /\ b \in Nat /\ a + n - 1 = b - 1
  BY <1>1, <1>2
<1>4. PICK o : o = lspOut'
  OBVIOUS
<1>5. PICK r : r = lspReader'
  OBVIOUS
<1>6. kind \in Kinds /\ <<"text", "execute", "print">>[lspReader.state] = kind
  <2>1. CASE lspReader.state = 1
    BY <2>1 DEF KindIn, Kinds
  <2>2. CASE lspReader.state = 2
    BY <2>2 DEF KindIn, Kinds
  <2>3. CASE lspReader.state = 3
    BY <2>3 DEF KindIn, Kinds
  <2> QED BY <2>1, <2>2, <2>3
<1>7. o = lspOut \o Use(kind, a, b) /\ r = [lspReader EXCEPT !.at = b]
  BY <1>2, <1>4, <1>5, <1>6, <1>1 DEF Forward, ReaderType
<1>8. Cut(p, o, b) /\ SameFree(o, b, lspOut, a)
  <2>1. \A k \in a..(b - 1) : UsedWell(p, Free(lspOut, a), kind, k)
    BY <1>3
  <2>2. Len(p) \in Nat
    BY <1>1
  <2> QED BY <2>1, <2>2, <1>1, <1>3, <1>6, <1>7, CutUse
<1>9. /\ r \in ReaderType /\ r.run = "kepler" /\ r.at = b /\ r.state = lspReader.state
      /\ r.tag = lspReader.tag
  BY <1>1, <1>3, <1>7 DEF ReaderType
<1>10. Free(o, b) = F
  BY <1>8 DEF SameFree
<1>11. ReaderOk(p, o, r)
  BY <1>1, <1>2, <1>8, <1>9, <1>10 DEF ReaderOk
<1> QED BY <1>4, <1>5, <1>11, GoesOn

\* The first call of the reader (lsp_kepler_reader).
LEMMA KeplerBeginStep == ASSUME LspInv, KeplerBegin PROVE LspInv'
<1>1. /\ lspReader.run = "kepler" /\ lspPage' = lspPage /\ lspOut' = lspOut
      /\ lspReader' = [lspReader EXCEPT !.state = 1]
  BY DEF KeplerBegin, ReaderIn
<1>2. Len(lspPage) \in Nat \ {0} /\ Cut(lspPage, lspOut, lspReader.at) /\ lspReader \in ReaderType
  BY <1>1, KeplerNow
<1>3. PICK r : r = [lspReader EXCEPT !.state = 1]
  OBVIOUS
<1>4. r \in ReaderType /\ r.run = "kepler" /\ r.at = lspReader.at /\ r.state = 1
  <2>1. 1 \in 0..3
    OBVIOUS
  <2>2. r.run = lspReader.run /\ r.at = lspReader.at /\ r.state = 1 /\ r \in ReaderType
    BY <2>1, <1>2, <1>3 DEF ReaderType
  <2> QED BY <2>2, <1>1
<1>5. ReaderOk(lspPage, lspOut, r)
  BY <1>2, <1>4 DEF ReaderOk
<1> QED BY <1>1, <1>3, <1>5 DEF LspInv

\* A block of text up to the next "<", or to the end of the block (lsp_kepler_reader).
LEMMA KeplerTextStep == ASSUME LspInv, KeplerText PROVE LspInv'
<1>0. lspReader.run = "kepler" /\ lspReader.state = 1 /\ lspPage' = lspPage /\ Left > 0
  BY DEF KeplerText, ReaderIn
<1>p. PICK p : p = lspPage
  OBVIOUS
<1>a. PICK a : a = lspReader.at
  OBVIOUS
<1>1. a \in Nat /\ Left \in Nat
  BY <1>0, <1>p, <1>a, KeplerNow
<1>2. PICK next : next = NextOf(0, "<")
  OBVIOUS
<1>3. PICK other : other = NextOf(1, "<")
  OBVIOUS
<1>4. next \in 0..Left /\ \A y \in 0..(next - 1) : Ch(lspReader.at + y) # "<"
  <2>1. 0 \in 0..Left
    BY <1>1
  <2> QED BY <2>1, <1>1, <1>2, NextIs
<1>5. other \in 1..Left /\ \A y \in 1..(other - 1) : Ch(lspReader.at + y) # "<"
  <2>1. 1 \in 0..Left
    BY <1>0, <1>1
  <2> QED BY <2>1, <1>1, <1>3, NextIs
<1>6. (next > 0 /\ Forward(next)) \/ (next = 0 /\ OpeningTag = 0 /\ Forward(other))
  BY <1>2, <1>3 DEF KeplerText, NextOf, Before
<1>7. KindIn(lspReader.state) = "text" /\ lspReader.state \notin {2, 3} /\ lspReader.state \in 1..3
  BY <1>0 DEF KindIn
<1>8. \A k : ~Opens(k) => UsedWell(p, Free(lspOut, a), "text", k)
  BY <1>p, PageIs DEF UsedWell, Plain
<1>9. \A k : Ch(k) # "<" => ~Opens(k)
  BY DEF Opens
<1>10. CASE next > 0 /\ Forward(next)
  <2>1. \A k \in a..(a + next - 1) : UsedWell(p, Free(lspOut, a), "text", k)
    <3> TAKE k \in a..(a + next - 1)
    <3>1. k - a \in 0..(next - 1) /\ a + (k - a) = k
      BY <1>1, <1>4
    <3>2. Ch(k) # "<"
      BY <3>1, <1>4, <1>a
    <3> QED BY <3>2, <1>8, <1>9
  <2>2. next \in 1..Left
    BY <1>4, <1>10
  <2> QED BY <2>1, <2>2, <1>0, <1>7, <1>10, <1>p, <1>a, ForwardIs
<1>11. CASE next = 0 /\ OpeningTag = 0 /\ Forward(other)
  <2>1. ~Opens(a)
    BY <1>11, <1>a DEF OpeningTag, Opens
  <2>2. \A k \in a..(a + other - 1) : UsedWell(p, Free(lspOut, a), "text", k)
    <3> TAKE k \in a..(a + other - 1)
    <3>1. CASE k = a
      BY <3>1, <2>1, <1>8
    <3>2. CASE k # a
      <4>1. k - a \in 1..(other - 1) /\ a + (k - a) = k
        BY <3>2, <1>1, <1>5
      <4>2. Ch(k) # "<"
        BY <4>1, <1>5, <1>a
      <4> QED BY <4>2, <1>8, <1>9
    <3> QED BY <3>1, <3>2
  <2> QED BY <2>2, <1>0, <1>5, <1>7, <1>11, <1>p, <1>a, ForwardIs
<1> QED BY <1>6, <1>10, <1>11

\* The end of the page, outside tags or in one (lsp_kepler_reader).
LEMMA KeplerEndStep == ASSUME LspInv, KeplerEnd PROVE LspInv'
<1>0. /\ lspReader.run = "kepler" /\ lspReader.state \in 1..3 /\ lspPage' = lspPage /\ Left = 0
      /\ lspOut' = lspOut
  BY DEF KeplerEnd, ReaderIn
<1>p. PICK p : p = lspPage
  OBVIOUS
<1>a. PICK a : a = lspReader.at
  OBVIOUS
<1>1. Len(p) \in Nat \ {0} /\ Cut(p, lspOut, a) /\ lspReader \in ReaderType /\ a = Len(p)
  BY <1>0, <1>p, <1>a, KeplerNow
<1>2. PICK r : r = lspReader'
  OBVIOUS
<1>3. CASE lspReader.state = 1
  <2>1. r = [lspReader EXCEPT !.run = "done"] \/ r = [lspReader EXCEPT !.run = "failed"]
    BY <1>2, <1>3 DEF KeplerEnd, LspEnds
  <2>2. r \in ReaderType /\ r.run \in {"done", "failed"}
    BY <2>1, <1>1 DEF ReaderType
  <2>3. ReaderOk(p, lspOut, r)
    BY <2>2, <1>1 DEF ReaderOk
  <2> QED BY <2>3, <1>0, <1>2, <1>p, GoesOn
<1>4. CASE lspReader.state # 1
  <2>1. r = [lspReader EXCEPT !.run = "rejected"]
    BY <1>2, <1>4 DEF KeplerEnd, LspEnds
  <2>2. r \in ReaderType /\ r.run = "rejected"
    BY <2>1, <1>1 DEF ReaderType
  <2>3. lspReader.state \in {2, 3}
    BY <1>0, <1>4
  <2>4. \E i \in Free(lspOut, Len(p)) : InTagFrom(p, Free(lspOut, Len(p)), i, Len(p))
    BY <2>3, <1>0, <1>1, <1>p, <1>a DEF LspInv, ReaderOk, InTagNow
  <2>5. ReaderOk(p, lspOut, r)
    BY <2>2, <2>4, <1>1 DEF ReaderOk
  <2> QED BY <2>5, <1>0, <1>2, <1>p, GoesOn
<1> QED BY <1>3, <1>4

\* A tag opens (lsp_kepler_reader).
LEMMA KeplerOpenStep == ASSUME LspInv, KeplerOpen PROVE LspInv'
<1>0. lspReader.run = "kepler" /\ lspPage' = lspPage /\ OpeningTag > 0 /\ lspOut' = lspOut
  BY DEF KeplerOpen, ReaderIn
<1>p. PICK p : p = lspPage
  OBVIOUS
<1>a. PICK a : a = lspReader.at
  OBVIOUS
<1>n. PICK n : n = OpeningTag
  OBVIOUS
<1>1. /\ Len(p) \in Nat \ {0} /\ Cut(p, lspOut, a) /\ lspReader \in ReaderType
      /\ a \in 0..Len(p) /\ a \in Nat
  BY <1>0, <1>p, <1>a, KeplerNow
<1>2. /\ PageCh(p, a) = "<" /\ PageCh(p, a + 1) \in Marks
      /\ (n = 3 /\ PageCh(p, a + 2) = "lua") \/ n = 2
  <2>1. ~(Ch(a) # "<" \/ Ch(a + 1) \notin Marks)
    BY <1>0, <1>a DEF OpeningTag
  <2>2. CASE Ch(a + 1) = "?" /\ Ch(a + 2) = "lua"
    <3>1. n = 3
      BY <2>1, <2>2, <1>n, <1>a DEF OpeningTag
    <3> QED BY <3>1, <2>1, <2>2, <1>p, PageIs
  <2>3. CASE ~(Ch(a + 1) = "?" /\ Ch(a + 2) = "lua")
    <3>1. n = 2
      BY <2>1, <2>3, <1>n, <1>a DEF OpeningTag
    <3> QED BY <3>1, <2>1, <1>p, PageIs
  <2> QED BY <2>2, <2>3
<1>3. a + 1 < Len(p) /\ PageOpens(p, a)
  <2>1. PageCh(p, a + 1) # ""
    BY <1>2 DEF Marks
  <2> QED BY <2>1, <1>2, Within DEF PageOpens
<1>v. PICK v : v = IF Ch(a + n) = "=" THEN 1 ELSE 0
  OBVIOUS
<1>c. PICK c : c = a + n + v
  OBVIOUS
<1>4. v \in {0, 1} /\ n \in {2, 3} /\ (v = 1 <=> PageCh(p, a + n) = "=")
  BY <1>v, <1>p, <1>2, PageIs
<1>5. c \in (a + 2)..(a + 4) /\ c \in Nat
  BY <1>1, <1>4, <1>c
<1>6. \A b \in (a + 2)..(c - 1) : (b = a + 2 /\ n = 3) \/ (b = a + n /\ v = 1)
  BY <1>1, <1>4, <1>c
<1>7. \A b \in (a + 2)..(c - 1) : PageCh(p, b) \in {"lua", "="}
  BY <1>2, <1>4, <1>6
<1>8. c \in a..Len(p)
  <2>1. CASE v = 1
    <3>1. a + n < Len(p)
      BY <2>1, <1>4, Within
    <3> QED BY <3>1, <2>1, <1>1, <1>4, <1>c
  <2>2. CASE v = 0 /\ n = 3
    <3>1. a + 2 < Len(p)
      <4>1. PageCh(p, a + 2) = "lua" /\ "lua" # ""
        BY <2>2, <1>2
      <4> QED BY <4>1, Within
    <3> QED BY <3>1, <2>2, <1>1, <1>c
  <2>3. CASE v = 0 /\ n = 2
    BY <2>3, <1>1, <1>3, <1>c
  <2> QED BY <2>1, <2>2, <2>3, <1>4
<1>9. PICK G : G = a..(c - 1)
  OBVIOUS
<1>10. a \in G /\ a + 1 \in G /\ \A k \in G : Lead(p, G, k)
  BY <1>1, <1>3, <1>5, <1>7, <1>9, LeadIs
<1>11. Cut(p, lspOut, c) /\ Free(lspOut, c) = Free(lspOut, a) \cup G
  BY <1>1, <1>8, <1>9, <1>10, CutPass
<1>12. PICK F : F = Free(lspOut, c)
  OBVIOUS
<1>13. G \subseteq F
  BY <1>11, <1>12
<1>14. PICK r : r = lspReader'
  OBVIOUS
<1>15. PICK state : state = IF v = 1 THEN 3 ELSE 2
  OBVIOUS
<1>16. /\ r = [run |-> "kepler", at |-> c, state |-> state, tag |-> PageCh(p, a + 1)]
       /\ state \in {2, 3}
  <2>1. Ch(lspReader.at + 1) = PageCh(p, a + 1)
    BY <1>p, <1>a, PageIs
  <2>2. CASE Ch(a + n) = "="
    <3>1. v = 1 /\ state = 3
      BY <2>2, <1>v, <1>15
    <3> QED BY <3>1, <2>1, <2>2, <1>a, <1>n, <1>c, <1>14 DEF KeplerOpen
  <2>3. CASE Ch(a + n) # "="
    <3>1. v = 0 /\ state = 2
      BY <2>3, <1>v, <1>15
    <3> QED BY <3>1, <2>1, <2>3, <1>a, <1>n, <1>c, <1>14 DEF KeplerOpen
  <2> QED BY <2>2, <2>3
<1>17. /\ r.run = "kepler" /\ r.at = c /\ r.state = state /\ r.tag = PageCh(p, a + 1)
       /\ r \in ReaderType
  <2>1. state \in 0..3
    BY <1>16
  <2>2. PageCh(p, a + 1) \in Marks \cup {""}
    <3>1. PageCh(p, a + 1) \in Marks
      BY <1>2
    <3> QED BY ONLY <3>1
  <2> QED BY <2>1, <2>2, <1>5, <1>16 DEF ReaderType
<1>18. InTagNow(p, F, c, state, PageCh(p, a + 1))
  <2>1. a \in F /\ a + 1 \in F /\ a < c
    BY <1>1, <1>5, <1>10, <1>13
  <2>2. \A j \in (a + 2)..(c - 1) : ~PageCloses(p, PageCh(p, a + 1), j)
    <3> TAKE j \in (a + 2)..(c - 1)
    <3>1. PageCh(p, j) \in {"lua", "="} /\ PageCh(p, a + 1) \in {"?", "%"}
      BY <1>2, <1>7 DEF Marks
    <3> QED BY <3>1 DEF PageCloses
  <2>3. InTagFrom(p, F, a, c)
    BY <2>1, <2>2, <1>3 DEF InTagFrom
  <2>4. state = 3 => Printed(p, F, a)
    <3>1. state = 3 => v = 1
      BY <1>15
    <3>2. v = 1 => a + n \in G /\ a + n \in {a + 2, a + 3} /\ PageCh(p, a + n) = "="
      BY <1>1, <1>4, <1>9, <1>c
    <3> QED BY <3>1, <3>2, <1>13 DEF Printed
  <2> QED BY <2>1, <2>3, <2>4 DEF InTagNow
<1>19. ReaderOk(p, lspOut, r)
  BY <1>1, <1>11, <1>12, <1>17, <1>18 DEF ReaderOk
<1> QED BY <1>0, <1>p, <1>14, <1>19, GoesOn

\* The tag that the reader is in.
LEMMA KeplerTag ==
    ASSUME LspInv, lspReader.run = "kepler", lspReader.state \in {2, 3}, NEW p, p = lspPage,
           NEW a, a = lspReader.at,
           NEW F, F = Free(lspOut, a), NEW tag, tag = lspReader.tag
    PROVE  /\ tag \in Marks
           /\ \E i \in F : /\ i \in Nat /\ InTagFrom(p, F, i, a) /\ PageCh(p, i + 1) = tag
                           /\ lspReader.state = 3 => Printed(p, F, i)
<1>1. PICK i \in F : InTagFrom(p, F, i, a) /\ PageCh(p, i + 1) = tag /\ (lspReader.state = 3 => Printed(p, F, i))
  BY DEF LspInv, ReaderOk, InTagNow
<1>2. i \in Nat /\ tag \in Marks
  <2>1. a \in Nat
    BY KeplerNow
  <2>2. i \in 0..(a - 1)
    BY <1>1 DEF Free
  <2> QED BY <2>1, <2>2, <1>1 DEF InTagFrom, PageOpens
<1> QED BY <1>1, <1>2

\* A tag closes: its closing is found at the position, and there is none before it.
LEMMA KeplerCloseStep == ASSUME LspInv, KeplerClose PROVE LspInv'
<1>0. /\ lspReader.run = "kepler" /\ lspReader.state \in {2, 3} /\ lspPage' = lspPage
      /\ CloseFound /\ lspOut' = lspOut
  BY DEF KeplerClose, ReaderIn
<1>p. PICK p : p = lspPage
  OBVIOUS
<1>a. PICK a : a = lspReader.at
  OBVIOUS
<1>t. PICK tag : tag = lspReader.tag
  OBVIOUS
<1>1. Len(p) \in Nat \ {0} /\ Cut(p, lspOut, a) /\ a \in Nat /\ a + 2 \in a..Len(p)
  <2>1. Len(p) \in Nat \ {0} /\ Cut(p, lspOut, a) /\ a \in Nat /\ Left \in Nat /\ Left <= Len(p) - a
    BY <1>0, <1>p, <1>a, KeplerNow
  <2>2. 1 < Left
    BY <1>0 DEF CloseFound
  <2> QED BY <2>1, <2>2
<1>2. tag \in Marks
  BY <1>0, <1>t, KeplerTag
<1>3. PageCloses(p, tag, a)
  BY <1>0, <1>p, <1>a, <1>t, PageIs DEF CloseFound, PageCloses
<1>4. PICK G : G = a..(a + 1)
  OBVIOUS
<1>5. G = a..((a + 2) - 1) /\ \A k \in G : Trail(p, G, k)
  <2>1. (a + 2) - 1 = a + 1
    BY <1>1
  <2> QED BY <2>1, <1>1, <1>2, <1>3, <1>4, TrailIs
<1>6. Cut(p, lspOut, a + 2)
  BY <1>1, <1>5, CutPass
<1>7. PICK r : r = lspReader'
  OBVIOUS
<1>8. r = [run |-> "kepler", at |-> a + 2, state |-> 1, tag |-> tag]
  BY <1>a, <1>t, <1>7 DEF KeplerClose
<1>9. r.run = "kepler" /\ r.at = a + 2 /\ r.state = 1 /\ r \in ReaderType
  <2>1. a + 2 \in Nat /\ 1 \in 0..3
    BY <1>1
  <2>2. tag \in Marks \cup {""}
    BY ONLY <1>2
  <2> QED BY <2>1, <2>2, <1>8 DEF ReaderType
<1>10. ReaderOk(p, lspOut, r)
  BY <1>1, <1>6, <1>9 DEF ReaderOk
<1> QED BY <1>0, <1>p, <1>7, <1>10, GoesOn

\* A block of code up to the next mark, or to the end of the block (lsp_kepler_reader).
LEMMA KeplerCodeStep == ASSUME LspInv, KeplerCode PROVE LspInv'
<1>0. /\ lspReader.run = "kepler" /\ lspReader.state \in {2, 3} /\ lspPage' = lspPage
      /\ Left > 0 /\ ~CloseFound
  BY DEF KeplerCode, ReaderIn
<1>p. PICK p : p = lspPage
  OBVIOUS
<1>a. PICK a : a = lspReader.at
  OBVIOUS
<1>t. PICK tag : tag = lspReader.tag
  OBVIOUS
<1>f. PICK F : F = Free(lspOut, a)
  OBVIOUS
<1>1. a \in Nat /\ Left \in Nat /\ Len(p) \in Nat /\ (Left <= 1 => Len(p) <= a + 1)
  BY <1>0, <1>p, <1>a, KeplerNow
<1>2. PICK next : next = NextOf(0, tag)
  OBVIOUS
<1>3. PICK other : other = NextOf(1, tag)
  OBVIOUS
<1>4. next \in 0..Left /\ \A y \in 0..(next - 1) : Ch(lspReader.at + y) # tag
  <2>1. 0 \in 0..Left
    BY <1>1
  <2> QED BY <2>1, <1>1, <1>2, NextIs
<1>5. other \in 1..Left /\ \A y \in 1..(other - 1) : Ch(lspReader.at + y) # tag
  <2>1. 1 \in 0..Left
    BY <1>0, <1>1
  <2> QED BY <2>1, <1>1, <1>3, NextIs
<1>6. PICK n : n = IF next > 0 THEN next ELSE other
  OBVIOUS
<1>7. Forward(n) /\ n \in 1..Left
  <2>1. Forward(n)
    BY <1>2, <1>3, <1>6, <1>t DEF KeplerCode, NextOf, Before
  <2>2. n \in 1..Left
    BY <1>4, <1>5, <1>6
  <2> QED BY <2>1, <2>2
<1>8. \A j \in a..(a + n - 1) : ~PageCloses(p, tag, j)
  <2> SUFFICES ASSUME NEW j \in a..(a + n - 1), PageCh(p, j) = tag, PageCh(p, j + 1) = ">"
               PROVE  FALSE
    BY DEF PageCloses
  <2>0. Ch(j) = tag /\ Ch(j + 1) = ">"
    BY <1>p, PageIs
  <2>1. CASE next > 0
    <3>1. j - a \in 0..(next - 1) /\ a + (j - a) = j
      BY <2>1, <1>1, <1>4, <1>6
    <3> QED BY <3>1, <2>0, <1>4, <1>a
  <2>2. CASE ~(next > 0) /\ j # a
    <3>1. j - a \in 1..(other - 1) /\ a + (j - a) = j
      BY <2>2, <1>1, <1>5, <1>6
    <3> QED BY <3>1, <2>0, <1>5, <1>a
  <2>3. CASE j = a
    <3>1. ~(1 < Left)
      BY <2>0, <2>3, <1>0, <1>a, <1>t DEF CloseFound
    <3>2. j + 1 < Len(p)
      <4>1. ">" # ""
        OBVIOUS
      <4> QED BY <4>1, Within
    <3> QED BY <3>1, <3>2, <2>3, <1>1
  <2> QED BY <2>1, <2>2, <2>3
<1>9. tag \in Marks /\ \E i \in F : /\ i \in Nat /\ InTagFrom(p, F, i, a) /\ PageCh(p, i + 1) = tag
                                    /\ lspReader.state = 3 => Printed(p, F, i)
  BY <1>0, <1>p, <1>a, <1>t, <1>f, KeplerTag
<1>10. PICK i \in F : /\ i \in Nat /\ InTagFrom(p, F, i, a) /\ PageCh(p, i + 1) = tag
                      /\ lspReader.state = 3 => Printed(p, F, i)
  BY <1>9
<1>11. \A k \in a..(a + n) : InTagFrom(p, F, i, k)
  <2> TAKE k \in a..(a + n)
  <2>1. i < k
    BY <1>1, <1>7, <1>10 DEF InTagFrom
  <2>2. \A j \in (i + 2)..(k - 1) : j \in (i + 2)..(a - 1) \/ j \in a..(a + n - 1)
    BY <1>1, <1>7, <1>10
  <2>3. \A j \in (i + 2)..(k - 1) : ~PageCloses(p, PageCh(p, i + 1), j)
    BY <2>2, <1>8, <1>10 DEF InTagFrom
  <2> QED BY <2>1, <2>3, <1>10 DEF InTagFrom
<1>12. PICK kind : kind = KindIn(lspReader.state)
  OBVIOUS
<1>13. kind # "text" /\ (kind = "print" => lspReader.state = 3)
  BY <1>0, <1>12 DEF KindIn
<1>14. \A k \in a..(a + n - 1) : UsedWell(p, F, kind, k)
  <2> TAKE k \in a..(a + n - 1)
  <2>1. k \in a..(a + n)
    BY <1>1, <1>7
  <2> QED BY <2>1, <1>10, <1>11, <1>13 DEF UsedWell
<1>15. InTagNow(p, F, a + n, lspReader.state, lspReader.tag)
  <2>1. a + n \in a..(a + n)
    BY <1>1, <1>7
  <2> QED BY <2>1, <1>10, <1>11, <1>t DEF InTagNow
<1>16. lspReader.state \in 1..3
  BY <1>0
<1> QED BY <1>0, <1>p, <1>a, <1>f, <1>7, <1>12, <1>14, <1>15, <1>16, ForwardIs

\* Every step keeps the invariant, for any pages and any size of the reader's blocks.
LEMMA LspStep == LspInv /\ [LspNext]_lspVars => LspInv'
<1> SUFFICES ASSUME LspInv, [LspNext]_lspVars PROVE LspInv'
  OBVIOUS
<1>1. CASE UNCHANGED lspVars
  BY <1>1, StillExact
<1>2. CASE lspReader.run = "none" /\ \E page \in LspPages : ChooseSyntax(page)
  BY <1>2, ChooseStep
<1>3. CASE (\E ok \in BOOLEAN : RunTag(ok)) \/ RunRest
  BY <1>3, RunTagStep, RunRestStep
<1>4. CASE KeplerBegin \/ KeplerText \/ KeplerOpen
  BY <1>4, KeplerBeginStep, KeplerTextStep, KeplerOpenStep
<1>5. CASE KeplerCode \/ KeplerClose \/ KeplerEnd
  BY <1>5, KeplerCodeStep, KeplerCloseStep, KeplerEndStep
<1> QED BY <1>1, <1>2, <1>3, <1>4, <1>5 DEF LspNext

-----------------------------------------------------------------------------
(* What is sent of files together *)

\* FileSent: a body is bytes of the file, one behind the other from the first byte of the range
\* on, and as long as Content-Length says unless there was a fault or the range is not in the
\* file (send_file_data); of SSI files all that is due is sent once and in its order
\* (send_ssi_file); of a page all is used once, in its order, as text or as code (mod_lua.inl).
THEOREM FilesSent ==
    /\ StaticInit /\ [][StaticNext]_staticVars
    /\ SsiInit /\ [][SsiNext]_ssiVars
    /\ LspInit /\ [][LspNext]_lspVars
    => []FileSent
<1>1. StaticInit /\ SsiInit /\ LspInit => StaticInv /\ SsiInv /\ LspInv
  BY StaticBegins, SsiBegins, LspBegins
<1>2. /\ StaticInv /\ SsiInv /\ LspInv
      /\ [StaticNext]_staticVars /\ [SsiNext]_ssiVars /\ [LspNext]_lspVars
      => StaticInv' /\ SsiInv' /\ LspInv'
  BY StaticStep, SsiStep, LspStep
<1>3. StaticInv /\ SsiInv /\ LspInv => FileSent
  BY StaticSafe, SsiSafe, LspSafe DEF FileSent
<1> QED BY <1>1, <1>2, <1>3, PTL
=============================================================================
