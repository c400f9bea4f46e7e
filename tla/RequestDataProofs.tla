------------------------- MODULE RequestDataProofs -------------------------
(***************************************************************************)
(* Proofs about what handlers and CGI programs are given of a request: the *)
(* fields of forms byte for byte, for any fields, any size of the buffer   *)
(* and any pieces in which the body arrives; all variables of the          *)
(* environment, for any variables and sizes of its block; and the form     *)
(* data that the C++ wrapper keeps, for any connections and requests.      *)
(***************************************************************************)
EXTENDS Components, SequenceTheorems, WellFoundedInduction, TLAPS

-----------------------------------------------------------------------------
(* Numbers and sequences *)

\* A set of natural numbers that is not empty has a least element: where the proofs below need
\* induction, they look at the least number for which a statement does not hold.
LEMMA Least == ASSUME NEW T, T \subseteq Nat, T # {} PROVE \E m \in T : \A n \in T : m <= n
<1> DEFINE R == OpToRel(<, Nat)
<1>1. IsWellFoundedOn(R, Nat)
  BY NatLessThanWellFounded
<1>2. \A x, y \in Nat : y < x => <<y, x>> \in R
  BY DEF OpToRel
<1> HIDE DEF R
<1>3. PICK m \in T : \A y \in T : ~(<<y, m>> \in R)
  BY <1>1, WFMin
<1>4. ASSUME NEW n \in T PROVE m <= n
  <2>1. m \in Nat /\ n \in Nat
    OBVIOUS
  <2>2. ~(n < m)
    BY <2>1, <1>2, <1>3
  <2> QED BY <2>1, <2>2
<1> QED BY <1>4

\* A sequence t that is another one with x behind it.
LEMMA AppendedIs ==
    ASSUME NEW S, NEW s \in Seq(S), NEW x \in S, NEW t \in Seq(S), Len(t) = Len(s) + 1,
           t[Len(s) + 1] = x, \A i \in 1..Len(s) : t[i] = s[i]
    PROVE  Append(s, x) = t
<1>1. /\ Append(s, x) \in Seq(S) /\ Len(Append(s, x)) = Len(s) + 1 /\ Len(s) \in Nat
      /\ Append(s, x)[Len(s) + 1] = x /\ \A i \in 1..Len(s) : Append(s, x)[i] = s[i]
  OBVIOUS
<1>2. \A i \in 1..Len(Append(s, x)) : i \in 1..Len(s) \/ i = Len(s) + 1
  BY <1>1
<1>3. \A i \in 1..Len(Append(s, x)) : Append(s, x)[i] = t[i]
  BY <1>1, <1>2
<1>4. Len(Append(s, x)) = Len(t)
  BY <1>1
<1> QED BY <1>1, <1>3, <1>4, SeqEqual

-----------------------------------------------------------------------------
(* CivetServer: whose form data a handler gets *)

\* Whose data an entry or the parameters hold.
Own(s, r) == \A i \in DOMAIN s : s[i] \in {r, Terminator}

\* The places of a worker that serves a connection.
CivetPlaces == {"closed", "idle", "begin", "auth", "authorized", "handler", "declined", "websocket", "last"}

\* The types of the variables.
CivetTypeOK ==
    /\ served \in [CivetConns -> [at : CivetPlaces, request : Int, left : Int]]
    /\ connections \in [CivetConns -> Seq(Int)]
    /\ formParams \in [CivetConns -> Seq(Int)]

\* The inductive invariant: while a handler or an authorization handler of the object runs,
\* the entry of its connection and its parameters hold pieces of the request it serves.
CivetInv ==
    /\ CivetTypeOK /\ EntriesOfOpen
    /\ \A c \in CivetConns : served[c].at \in {"auth", "handler"} =>
         Own(connections[c], served[c].request) /\ Own(formParams[c], served[c].request)

\* What getPostData and getParam take from the body belongs to the request.
LEMMA PostDataOwn ==
    ASSUME CivetTypeOK, NEW c \in CivetConns, NEW n \in Nat, NEW end \in {"end", "error", "exception"}
    PROVE  PostData(c, n, end) \in Seq(Int) /\ Own(PostData(c, n, end), served[c].request)
<1>t. served[c].request \in Int /\ Terminator \in Int
  BY DEF CivetTypeOK, Terminator
<1>1. BodyPieces(c, n) \in Seq(Int) /\ Len(BodyPieces(c, n)) = n /\ \A i \in 1..n : BodyPieces(c, n)[i] = served[c].request
  BY <1>t DEF BodyPieces
<1>2. <<Terminator>> \in Seq(Int) /\ Own(<<Terminator>>, served[c].request)
  BY <1>t DEF Own
<1>3. <<>> \in Seq(Int) /\ Own(<<>>, served[c].request)
  BY DEF Own
<1>4. Append(BodyPieces(c, n), Terminator) \in Seq(Int) /\ Own(Append(BodyPieces(c, n), Terminator), served[c].request)
  <2> DEFINE p == BodyPieces(c, n)
  <2>1. /\ Append(p, Terminator) \in Seq(Int) /\ Len(Append(p, Terminator)) = n + 1
        /\ \A i \in 1..n : Append(p, Terminator)[i] = p[i]
        /\ Append(p, Terminator)[n + 1] = Terminator
    BY <1>1, <1>t, AppendProperties
  <2>2. DOMAIN Append(p, Terminator) = 1..(n + 1)
    BY <2>1
  <2> HIDE DEF p
  <2>3. \A i \in 1..n : p[i] = served[c].request
    BY <1>1 DEF p
  <2>4. \A i \in 1..(n + 1) : Append(p, Terminator)[i] \in {served[c].request, Terminator}
    <3> TAKE i \in 1..(n + 1)
    <3>1. i \in 1..n \/ i = n + 1
      OBVIOUS
    <3> QED BY <3>1, <2>1, <2>3
  <2> QED BY <2>1, <2>2, <2>4 DEF Own, p
<1>5. PostData(c, n, end) \in {<<Terminator>>, <<>>, Append(BodyPieces(c, n), Terminator)}
  BY DEF PostData
<1> QED BY <1>2, <1>3, <1>4, <1>5, Zenon

\* A step of one connection keeps the invariant when it is right for this connection.
Serves(c, s, e, p) ==
    /\ served' = [served EXCEPT ![c] = s] /\ connections' = [connections EXCEPT ![c] = e]
    /\ formParams' = [formParams EXCEPT ![c] = p]
    /\ s \in [at : CivetPlaces, request : Int, left : Int] /\ e \in Seq(Int) /\ p \in Seq(Int)
    /\ s.at \in {"auth", "handler"} => Own(e, s.request) /\ Own(p, s.request)
    /\ s.at = "closed" /\ c \notin early' => e = NoEntry
    /\ early \ {c} = early' \ {c}

\* Such a step: the other connections are as they were.
LEMMA OneServed == ASSUME CivetInv, NEW c \in CivetConns, NEW s, NEW e, NEW p, Serves(c, s, e, p) PROVE CivetInv'
<1>t. CivetTypeOK
  BY DEF CivetInv
<1>1. CivetTypeOK'
  BY <1>t DEF CivetTypeOK, Serves
<1>2. ASSUME NEW d \in CivetConns
      PROVE  IF d = c THEN served'[d] = s /\ connections'[d] = e /\ formParams'[d] = p
             ELSE served'[d] = served[d] /\ connections'[d] = connections[d] /\ formParams'[d] = formParams[d]
  BY <1>t DEF CivetTypeOK, Serves
<1>3. EntriesOfOpen'
  BY <1>2 DEF EntriesOfOpen, Serves, CivetInv
<1>4. ASSUME NEW d \in CivetConns, served'[d].at \in {"auth", "handler"}
      PROVE  Own(connections'[d], served'[d].request) /\ Own(formParams'[d], served'[d].request)
  BY <1>2, <1>4 DEF Serves, CivetInv
<1> QED BY <1>1, <1>3, <1>4 DEF CivetInv

\* A step that touches no connection.
LEMMA NoneServed ==
    ASSUME CivetInv, UNCHANGED <<served, connections, formParams, early>> PROVE CivetInv'
BY DEF CivetInv, CivetTypeOK, EntriesOfOpen

\* Every step keeps the invariant, also a request that is served without the object, a second
\* request of the connection and a close callback that finds no context (requestHandler,
\* authHandler, closeHandler, getParam, getPostData).
LEMMA CivetStep == CivetInv /\ [CivetNext]_civetVars => CivetInv'
<1> SUFFICES ASSUME CivetInv, [CivetNext]_civetVars PROVE CivetInv'
  OBVIOUS
<1>t. CivetTypeOK
  BY DEF CivetInv
<1>n. NoEntry \in Seq(Int) /\ <<>> \in Seq(Int) /\ \A r : Own(<<>>, r)
  BY DEF NoEntry, Own
<1>c. ASSUME NEW c \in CivetConns
      PROVE  /\ served[c] \in [at : CivetPlaces, request : Int, left : Int]
             /\ connections[c] \in Seq(Int) /\ formParams[c] \in Seq(Int)
             /\ connections = [connections EXCEPT ![c] = connections[c]]
             /\ formParams = [formParams EXCEPT ![c] = formParams[c]]
             /\ served[c].at \in {"auth", "handler"} =>
                  Own(connections[c], served[c].request) /\ Own(formParams[c], served[c].request)
             /\ served[c].at = "closed" /\ c \notin early => connections[c] = NoEntry
  BY <1>t DEF CivetTypeOK, CivetInv, EntriesOfOpen
<1>1. CASE UNCHANGED civetVars
  BY <1>1, NoneServed DEF civetVars
<1>2. CASE ConstructServer \/ (\E ok \in BOOLEAN : ContextSaved(ok)) \/ CloseServer \/ CloseReturns
           \/ \E kind \in HandlerKinds : addHandler(kind) \/ removeHandler(kind)
  BY <1>2, NoneServed DEF ConstructServer, ContextSaved, CloseServer, CloseReturns, addHandler, removeHandler
\* The worker goes to another place, and with a fresh entry if one of the object's handlers runs.
<1>a. ASSUME NEW c \in CivetConns, NEW to \in CivetPlaces, ServedAt(c, to), UNCHANGED <<connections, formParams, early>>,
             to \notin {"auth", "handler", "closed"}
      PROVE  CivetInv'
  <2> DEFINE s == [served[c] EXCEPT !.at = to]
  <2>1. s \in [at : CivetPlaces, request : Int, left : Int] /\ s.at = to
    BY <1>c DEF CivetPlaces
  <2>2. served' = [served EXCEPT ![c] = s]
    BY <1>a DEF ServedAt
  <2> HIDE DEF s
  <2>3. Serves(c, s, connections[c], formParams[c])
    BY <1>a, <1>c, <2>1, <2>2 DEF Serves
  <2> QED BY <2>3, OneServed
<1>b. ASSUME NEW c \in CivetConns, NEW to \in {"auth", "handler"}, ServedAt(c, to), FreshEntry(c),
             formParams' = [formParams EXCEPT ![c] = <<>>], UNCHANGED early
      PROVE  CivetInv'
  <2> DEFINE s == [served[c] EXCEPT !.at = to]
  <2>1. s \in [at : CivetPlaces, request : Int, left : Int] /\ s.at = to
    BY <1>c DEF CivetPlaces
  <2>2. served' = [served EXCEPT ![c] = s]
    BY <1>b DEF ServedAt
  <2> HIDE DEF s
  <2>3. Serves(c, s, <<>>, <<>>)
    BY <1>b, <1>c, <1>n, <2>1, <2>2 DEF Serves, FreshEntry
  <2> QED BY <2>3, OneServed
<1>3. ASSUME NEW c \in CivetConns, ClientServed(c) \/ ServedOtherwise(c) \/ webSocketHandlers(c) \/ webSocketEnds(c)
      PROVE  CivetInv'
  BY <1>3, <1>a DEF CivetPlaces, ClientServed, ServedOtherwise, webSocketHandlers, webSocketEnds
<1>4. ASSUME NEW c \in CivetConns, authHandler(c) \/ requestHandler(c) PROVE CivetInv'
  BY <1>4, <1>b DEF authHandler, requestHandler
<1>5. ASSUME NEW c \in CivetConns, NEW ok \in BOOLEAN, authHandlerReturns(c, ok) PROVE CivetInv'
  BY <1>5, <1>a DEF CivetPlaces, authHandlerReturns
<1>6. ASSUME NEW c \in CivetConns, NEW forms \in HandlerForms, requestHandlerReturns(c, forms) PROVE CivetInv'
  BY <1>6, <1>a DEF CivetPlaces, requestHandlerReturns
<1>7. ASSUME NEW c \in CivetConns, closeHandler(c) PROVE CivetInv'
  <2> DEFINE s == [served[c] EXCEPT !.at = "closed"]
  <2>1. s \in [at : CivetPlaces, request : Int, left : Int] /\ s.at = "closed"
    BY <1>c DEF CivetPlaces
  <2>2. served' = [served EXCEPT ![c] = s] /\ UNCHANGED formParams
    BY <1>7 DEF closeHandler, ServedAt
  <2> HIDE DEF s
  <2>3. CASE HasContext
    <3>1. Serves(c, s, NoEntry, formParams[c])
      BY <1>7, <1>c, <1>n, <2>1, <2>2, <2>3 DEF Serves, closeHandler
    <3> QED BY <3>1, OneServed
  <2>4. CASE ~HasContext
    <3>1. Serves(c, s, connections[c], formParams[c])
      BY <1>7, <1>c, <2>1, <2>2, <2>4 DEF Serves, closeHandler
    <3> QED BY <3>1, OneServed
  <2> QED BY <2>3, <2>4
<1>8. ASSUME NEW c \in CivetConns, NEW n \in 0..MaxPieces, RequestBegins(c, n) PROVE CivetInv'
  <2> DEFINE s == [at |-> "begin", request |-> served[c].request + 1, left |-> n]
  <2>1. s \in [at : CivetPlaces, request : Int, left : Int] /\ s.at = "begin"
    BY <1>c, CivetServerAssumption DEF CivetPlaces
  <2>2. served' = [served EXCEPT ![c] = s]
    BY <1>8 DEF RequestBegins
  <2> HIDE DEF s
  <2>3. Serves(c, s, connections[c], <<>>)
    BY <1>8, <1>c, <1>n, <2>1, <2>2 DEF Serves, RequestBegins
  <2> QED BY <2>3, OneServed
<1>9. ASSUME NEW c \in CivetConns, NEW n \in 0..MaxPieces, getPostData(c, n) PROVE CivetInv'
  <2>n. n \in Nat
    BY CivetServerAssumption
  <2> DEFINE s == [served[c] EXCEPT !.left = @ - n]
  <2>1. s \in [at : CivetPlaces, request : Int, left : Int] /\ s.at = served[c].at /\ s.request = served[c].request
    BY <1>c, <2>n
  <2>2. served' = [served EXCEPT ![c] = s] /\ served[c].at # "closed"
    BY <1>9 DEF getPostData, InCallback
  <2> HIDE DEF s
  <2>3. Serves(c, s, connections[c], formParams[c])
    BY <1>9, <1>c, <2>1, <2>2 DEF Serves, getPostData
  <2> QED BY <2>3, OneServed
<1>10. ASSUME NEW c \in CivetConns, NEW n \in 0..MaxPieces, NEW end \in {"end", "error", "exception"}, getParam(c, n, end)
       PROVE  CivetInv'
  <2>n. n \in Nat
    BY CivetServerAssumption
  <2> DEFINE entry == IF connections[c] = NoEntry THEN <<>> ELSE connections[c]
             data == IF entry = <<>> THEN PostData(c, n, end) ELSE entry
             s == IF entry # <<>> THEN served[c] ELSE [served[c] EXCEPT !.left = @ - n]
  <2>1. s \in [at : CivetPlaces, request : Int, left : Int] /\ s.at = served[c].at /\ s.request = served[c].request
    BY <1>c, <2>n
  <2>2. served' = [served EXCEPT ![c] = s] /\ served[c].at # "closed"
    BY <1>10, <1>t DEF getParam, InCallback, CivetTypeOK
  <2>3. data \in Seq(Int) /\ (served[c].at \in {"auth", "handler"} => Own(data, served[c].request))
    <3>1. PostData(c, n, end) \in Seq(Int) /\ Own(PostData(c, n, end), served[c].request)
      BY <1>t, <2>n, PostDataOwn
    <3>2. entry \in Seq(Int) /\ (served[c].at \in {"auth", "handler"} => Own(entry, served[c].request))
      BY <1>c, <1>n
    <3> HIDE DEF entry
    <3> QED BY <3>1, <3>2
  <2>4. connections' = [connections EXCEPT ![c] = data] /\ formParams' = [formParams EXCEPT ![c] = data] /\ UNCHANGED early
    BY <1>10 DEF getParam
  <2> HIDE DEF s, data, entry
  <2>5. Serves(c, s, data, data)
    BY <2>1, <2>2, <2>3, <2>4 DEF Serves
  <2> QED BY <2>5, OneServed
<1> QED BY <1>1, <1>2, <1>3, <1>4, <1>5, <1>6, <1>7, <1>8, <1>9, <1>10 DEF CivetNext

\* The invariant holds at the beginning.
LEMMA CivetStart == CivetInit => CivetInv
<1> SUFFICES ASSUME CivetInit PROVE CivetInv
  OBVIOUS
<1>1. NoEntry \in Seq(Int) /\ <<>> \in Seq(Int)
  BY DEF NoEntry
<1>2. CivetTypeOK
  BY <1>1 DEF CivetInit, CivetTypeOK, CivetPlaces, NotServed
<1> QED BY <1>2 DEF CivetInit, CivetInv, NotServed, EntriesOfOpen

\* It implies the property.
LEMMA CivetSafe == CivetInv => CivetParams
BY DEF CivetInv, CivetParams, ParamsOwn, Own, ToSet

-----------------------------------------------------------------------------
(* CgiEnv: the environment of a CGI program *)

\* A function on 1..m is a sequence.
LEMMA SequenceIs ==
    ASSUME NEW S, NEW m \in Nat, NEW b, b = [i \in 1..m |-> b[i]], \A i \in 1..m : b[i] \in S
    PROVE  b \in Seq(S) /\ Len(b) = m
<1>1. b \in [1..m -> S]
  <2>1. [i \in 1..m |-> b[i]] \in [1..m -> S]
    OBVIOUS
  <2> QED BY <2>1, Zenon
<1> QED BY <1>1

\* f adds up the first n elements of s, each with its NUL.
Sums(f, s, n) == f \in [0..n -> Nat] /\ f[0] = 0 /\ \A i \in 1..n : f[i] = f[i - 1] + s[i] + 1

\* There is such a function.
LEMMA SumsExist == ASSUME NEW s \in Seq(Nat) PROVE \E f : Sums(f, s, Len(s))
<1> DEFINE T == {n \in 0..Len(s) : ~\E f : Sums(f, s, n)}
<1>1. SUFFICES ASSUME T # {} PROVE FALSE
  <2>1. Len(s) \in 0..Len(s)
    OBVIOUS
  <2> QED BY <2>1
<1>2. PICK m \in T : \A n \in T : m <= n
  <2>1. T \subseteq Nat
    OBVIOUS
  <2> HIDE DEF T
  <2> QED BY <2>1, <1>1, Least
<1>3. m # 0
  <2>1. Sums([i \in 0..0 |-> 0], s, 0)
    BY DEF Sums
  <2> QED BY <2>1, <1>2
<1>4. m - 1 \in 0..Len(s) /\ m \in 1..Len(s)
  BY <1>3
<1>5. PICK f : Sums(f, s, m - 1)
  <2>1. m - 1 \notin T
    <3> HIDE DEF T
    <3> QED BY <1>2, <1>4
  <2> QED BY <2>1, <1>4
<1> DEFINE g == [i \in 0..m |-> IF i = m THEN f[m-1] + s[m] + 1 ELSE f[i]]
<1>7. g \in [0..m -> Nat]
  BY <1>4, <1>5 DEF Sums
<1>8. g[0] = 0 /\ \A i \in 1..m : g[i] = g[i-1] + s[i] + 1
  BY <1>4, <1>5 DEF Sums
<1>9. Sums(g, s, m)
  <2> HIDE DEF g
  <2> QED BY <1>7, <1>8 DEF Sums
<1> QED BY <1>9, <1>2

\* There is only one.
LEMMA SumsUnique == ASSUME NEW s \in Seq(Nat), NEW n \in Nat, NEW k \in Nat, n <= k, NEW f, NEW g, Sums(f, s, n), Sums(g, s, k) PROVE \A i \in 0..n : f[i] = g[i]
<1> DEFINE T == {i \in 0..n : f[i] # g[i]}
<1>1. SUFFICES ASSUME T # {} PROVE FALSE
  OBVIOUS
<1>2. PICK m \in T : \A i \in T : m <= i
  <2>1. T \subseteq Nat
    OBVIOUS
  <2> HIDE DEF T
  <2> QED BY <2>1, <1>1, Least
<1>3. m # 0
  BY DEF Sums
<1>4. m - 1 \in 0..n /\ m \in 1..n
  BY <1>3
<1>5. m - 1 \notin T
  <2> HIDE DEF T
  <2> QED BY <1>2, <1>4
<1> QED BY <1>4, <1>5 DEF Sums

\* Used, which is defined by recursion, is its last value.
LEMMA UsedIsSum == ASSUME NEW s \in Seq(Nat), NEW f, Sums(f, s, Len(s)) PROVE Used(s) = f[Len(s)]
<1> DEFINE D(g) == [i \in 0..Len(s) |-> IF i = 0 THEN 0 ELSE g[i - 1] + s[i] + 1]
<1>1. f = D(f)
  BY DEF Sums
<1>2. PICK h : h = D(h) /\ Used(s) = h[Len(s)]
  <2>1. Used(s) = (CHOOSE g : g = D(g))[Len(s)]
    BY DEF Used
  <2> HIDE DEF D
  <2> QED BY <1>1, <2>1
<1>3. h[0] = 0 /\ \A i \in 1..Len(s) : h[i] = h[i-1] + s[i] + 1
  <2>1. \A g : \A i \in 0..Len(s) : D(g)[i] = IF i = 0 THEN 0 ELSE g[i - 1] + s[i] + 1
    OBVIOUS
  <2>2. \A i \in 0..Len(s) : h[i] = IF i = 0 THEN 0 ELSE h[i - 1] + s[i] + 1
    <3> HIDE DEF D
    <3> QED BY <1>2, <2>1
  <2> HIDE DEF D
  <2> QED BY <2>2
<1> DEFINE T == {i \in 0..Len(s) : f[i] # h[i]}
<1>4. SUFFICES ASSUME T # {} PROVE FALSE
  <2>1. Len(s) \in 0..Len(s)
    OBVIOUS
  <2> QED BY <1>2, <2>1
<1>5. PICK m \in T : \A i \in T : m <= i
  <2>1. T \subseteq Nat
    OBVIOUS
  <2> HIDE DEF T
  <2> QED BY <2>1, <1>4, Least
<1>7. m # 0
  BY <1>3 DEF Sums
<1>8. m - 1 \in 0..Len(s) /\ m \in 1..Len(s)
  BY <1>7
<1>9. m - 1 \notin T
  <2> HIDE DEF T
  <2> QED BY <1>5, <1>8
<1> QED BY <1>3, <1>8, <1>9 DEF Sums

\* One variable more in the environment block takes its length and a NUL (addenv).
LEMMA UsedOfAppend ==
    ASSUME NEW s \in Seq(Nat), NEW n \in Nat
    PROVE  Used(s) \in Nat /\ Used(Append(s, n)) = Used(s) + n + 1
<1> DEFINE t == Append(s, n)
           l == Len(s)
<1>1. t \in Seq(Nat) /\ Len(t) = l + 1 /\ t[l + 1] = n /\ \A i \in 1..l : t[i] = s[i]
  BY AppendProperties
<1> HIDE DEF t
<1>2. PICK f : Sums(f, t, Len(t))
  BY <1>1, SumsExist
<1> DEFINE g == [i \in 0..l |-> f[i]]
<1>3. l \in Nat
  OBVIOUS
<1>4. Sums(g, s, l)
  BY <1>1, <1>2, <1>3 DEF Sums
<1>5. g[l] = f[l] /\ g[l] \in Nat
  BY <1>1, <1>2, <1>3 DEF Sums
<1> HIDE DEF g
<1>6. Used(s) = f[l] /\ Used(t) = f[l + 1]
  BY <1>1, <1>2, <1>4, <1>5, UsedIsSum
<1>7. f[l + 1] = f[l] + n + 1
  BY <1>1, <1>2, <1>3 DEF Sums
<1> QED BY <1>5, <1>6, <1>7 DEF t

\* An empty environment block.
LEMMA UsedOfNothing == Used(<<>>) = 0
<1> DEFINE e == <<>>
<1>1. e \in Seq(Nat) /\ Len(e) = 0
  OBVIOUS
<1> HIDE DEF e
<1>2. PICK f : Sums(f, e, Len(e))
  BY <1>1, SumsExist
<1>3. Used(e) = 0
  BY <1>1, <1>2, UsedIsSum DEF Sums
<1> QED BY <1>3 DEF e

\* The block of generation g, with l bytes and the variables s.
Buffer(g, l, s) == [gen |-> g, buflen |-> l, strings |-> s]

\* The pointers to the variables s of the block of generation g.
Targets(g, s) == [i \in 1..Len(s) |-> [gen |-> g, at |-> Used(SubSeq(s, 1, i - 1))]]

\* The block is the one of generation g with l bytes, it has the variables s, and the array
\* points to all of them; nothing was written over the ends of the two.
EnvHas(g, l, s) ==
    /\ g \in Nat /\ l \in Nat /\ s \in Seq(Nat)
    /\ envBuf = Buffer(g, l, s) /\ envVar = Targets(g, s)
    /\ envPhase # "failed" => Used(s) < l /\ Len(s) < MaxCgiEnvirVars

\* The inductive invariant.
EnvInv ==
    IF envPhase = "none" THEN envBuf = NoBuffer /\ envVar = <<>> ELSE \E g, l, s : EnvHas(g, l, s)

\* What addenv appends to the array is the pointer to the variable it appends to the block.
LEMMA TargetsOfAppend ==
    ASSUME NEW g, NEW s \in Seq(Nat), NEW n \in Nat
    PROVE  Targets(g, Append(s, n)) = Append(Targets(g, s), [gen |-> g, at |-> Used(s)])
<1> DEFINE t == Append(s, n)
           l == Len(s)
           T == [gen : {g}, at : Nat]
           x == [gen |-> g, at |-> Used(s)]
<1>1. t \in Seq(Nat) /\ Len(t) = l + 1 /\ \A i \in 1..l : t[i] = s[i]
  BY AppendProperties
<1>2. \A u \in Seq(Nat) : Used(u) \in Nat
  BY UsedOfAppend
<1>3. ASSUME NEW i \in 1..(l + 1)
      PROVE  SubSeq(t, 1, i - 1) = SubSeq(s, 1, i - 1) /\ SubSeq(s, 1, i - 1) \in Seq(Nat)
  <2>1. i - 1 \in 0..l
    BY <1>3
  <2> HIDE DEF t
  <2>2. /\ SubSeq(t, 1, i - 1) \in Seq(Nat) /\ Len(SubSeq(t, 1, i - 1)) = i - 1
        /\ \A j \in 1..(i - 1) : SubSeq(t, 1, i - 1)[j] = t[j]
    BY <1>1, <2>1, SubSeqProperties
  <2>3. /\ SubSeq(s, 1, i - 1) \in Seq(Nat) /\ Len(SubSeq(s, 1, i - 1)) = i - 1
        /\ \A j \in 1..(i - 1) : SubSeq(s, 1, i - 1)[j] = s[j]
    BY <2>1, SubSeqProperties
  <2> QED BY <2>1, <2>2, <2>3, <1>1, SeqEqual
<1>4. SubSeq(s, 1, l) = s
  BY SubSeqFull
<1>5. \A i \in 1..(l + 1) : [gen |-> g, at |-> Used(SubSeq(t, 1, i - 1))] \in T
  BY <1>2, <1>3
<1>6. x \in T
  BY <1>2
<1> DEFINE b == Targets(g, t)
           a == Targets(g, s)
<1>7. /\ b = [i \in 1..(l + 1) |-> [gen |-> g, at |-> Used(SubSeq(t, 1, i - 1))]]
      /\ a = [i \in 1..l |-> [gen |-> g, at |-> Used(SubSeq(s, 1, i - 1))]]
  BY <1>1 DEF Targets
<1> HIDE DEF t, a, b, T
<1>8. /\ \A i \in 1..(l + 1) : b[i] \in T
      /\ b = [i \in 1..(l + 1) |-> b[i]] /\ b[l + 1] = x
      /\ \A i \in 1..l : a[i] = b[i]
      /\ a = [i \in 1..l |-> a[i]]
  <2>1. l \in Nat
    OBVIOUS
  <2>2. \A i \in 1..(l + 1) : b[i] = [gen |-> g, at |-> Used(SubSeq(s, 1, i - 1))]
    BY <1>3, <1>7
  <2>3. \A i \in 1..l : a[i] = [gen |-> g, at |-> Used(SubSeq(s, 1, i - 1))] /\ i \in 1..(l + 1)
    BY <1>7
  <2>4. b[l + 1] = x
    <3>1. l + 1 \in 1..(l + 1) /\ (l + 1) - 1 = l
      BY <2>1
    <3>2. b[l + 1] = [gen |-> g, at |-> Used(SubSeq(s, 1, (l + 1) - 1))]
      BY <2>2, <3>1
    <3> HIDE DEF l
    <3>3. b[l + 1] = [gen |-> g, at |-> Used(SubSeq(s, 1, l))]
      BY ONLY <3>1, <3>2
    <3> QED BY <3>3, <1>4 DEF x
  <2>5. \A i \in 1..(l + 1) : b[i] \in T
    BY <1>5, <1>7
  <2> QED BY <2>1, <2>2, <2>3, <2>4, <2>5, <1>7
<1> HIDE DEF x
<1>9. /\ b \in Seq(T) /\ Len(b) = l + 1 /\ a \in Seq(T) /\ Len(a) = l
      /\ b[l + 1] = x /\ \A i \in 1..l : b[i] = a[i]
  <2>1. l \in Nat /\ l + 1 \in Nat
    OBVIOUS
  <2>2. b \in Seq(T) /\ Len(b) = l + 1
    BY <2>1, <1>8, SequenceIs
  <2>3. ASSUME NEW i \in 1..l PROVE a[i] \in T
    <3>1. i \in 1..(l + 1)
      BY <2>1
    <3>2. a[i] = b[i] /\ b[i] \in T
      BY <3>1, <1>8
    <3> QED BY <3>2
  <2>4. a \in Seq(T) /\ Len(a) = l
    <3>1. a = [i \in 1..l |-> a[i]]
      BY <1>8
    <3> HIDE DEF l
    <3> QED BY ONLY <2>1, <2>3, <3>1, SequenceIs
  <2> QED BY <2>2, <2>4, <1>8
<1>10. Append(a, x) = b
  BY ONLY <1>6, <1>9, AppendedIs
<1> QED BY <1>10 DEF a, b, t, x

\* What addenv and a failing addenv do to the buffer.
LEMMA Growing ==
    ASSUME NEW g \in Nat, NEW l \in Nat, NEW s \in Seq(Nat), envBuf = Buffer(g, l, s), envVar = Targets(g, s),
           NEW k \in Nat
    PROVE  /\ Grown(k) = Buffer(g + k, l + k * CgiEnvironmentSize, s)
           /\ (IF k = 0 THEN envVar ELSE Retargeted(Grown(k))) = Targets(g + k, s)
           /\ bufused = Used(s) /\ Len(envVar) = Len(s)
<1>1. envBuf.gen = g /\ envBuf.buflen = l /\ envBuf.strings = s
  BY DEF Buffer
<1>2. Grown(k) = Buffer(g + k, l + k * CgiEnvironmentSize, s)
  BY <1>1 DEF Buffer, Grown
<1>3. DOMAIN envVar = 1..Len(s) /\ Len(envVar) = Len(s)
  BY DEF Targets
<1>4. Retargeted(Grown(k)) = Targets(g + k, s)
  <2>1. \A i \in 1..Len(s) : Pointer(Buffer(g + k, l + k * CgiEnvironmentSize, s), i) = [gen |-> g + k, at |-> Used(SubSeq(s, 1, i - 1))]
    BY DEF Pointer, Buffer
  <2> QED BY <1>2, <1>3, <2>1 DEF Retargeted, Targets
<1>5. k = 0 => g + k = g
  OBVIOUS
<1> QED BY <1>1, <1>2, <1>3, <1>4, <1>5 DEF bufused

\* Every step keeps the invariant: an addenv that appends, one that makes the block grow, move
\* and all pointers follow it, one that fails after it has grown (addenv, prepare_cgi_environment).
LEMMA EnvStep == EnvInv /\ [EnvNext]_envVars => EnvInv'
<1> SUFFICES ASSUME EnvInv, [EnvNext]_envVars PROVE EnvInv'
  OBVIOUS
<1>a. CgiEnvironmentSize \in Nat /\ MaxCgiEnvirVars \in Nat /\ MaxVariable \in Nat /\ MaxGrown \in Nat
      /\ CgiEnvironmentSize > 2 /\ MaxCgiEnvirVars > 1
  BY CgiEnvAssumption
<1>e. Used(<<>>) = 0 /\ <<>> \in Seq(Nat) /\ Len(<<>>) = 0 /\ \A g : Targets(g, <<>>) = <<>>
  BY UsedOfNothing DEF Targets
<1>1. CASE UNCHANGED envVars
  BY <1>1 DEF envVars, EnvInv, EnvHas
<1>2. CASE EnvStart
  <2>1. envBuf' = Buffer(0, CgiEnvironmentSize, <<>>) /\ envVar' = <<>> /\ envPhase' = "server"
    BY <1>2 DEF EnvStart, Buffer
  <2>2. EnvHas(0, CgiEnvironmentSize, <<>>)'
    BY <2>1, <1>a, <1>e DEF EnvHas
  <2> QED BY <2>1, <2>2 DEF EnvInv
<1>3. CASE EnvFree
  BY <1>3 DEF EnvFree, EnvInv
<1>4. CASE EnvGoesOn \/ HeaderTooLong \/ EnvFinish \/ AddenvFull
  BY <1>4 DEF EnvGoesOn, HeaderTooLong, EnvFinish, AddenvFull, EnvInv, EnvHas, envVars
<1>5. ASSUME NEW n \in 0..MaxVariable, envPhase \in {"server", "headers", "configured"}, addenv(n) PROVE EnvInv'
  <2>1. PICK g, l, s : EnvHas(g, l, s)
    BY <1>5 DEF EnvInv
  <2>2. PICK k \in 0..MaxGrown :
          /\ Fits(Grown(k), n) /\ envBuf' = [Grown(k) EXCEPT !.strings = Append(@, n)]
          /\ envVar' = Append(IF k = 0 THEN envVar ELSE Retargeted(Grown(k)), [gen |-> Grown(k).gen, at |-> bufused])
    BY <1>5 DEF addenv
  <2>n. n \in Nat /\ k \in Nat
    BY <1>a
  <2>3. Len(envVar) + 2 <= MaxCgiEnvirVars /\ envPhase' = envPhase
    BY <1>5 DEF addenv
  <2> DEFINE m == l + k * CgiEnvironmentSize
             t == Append(s, n)
  <2>4. /\ Grown(k) = Buffer(g + k, m, s) /\ bufused = Used(s) /\ Len(envVar) = Len(s)
        /\ (IF k = 0 THEN envVar ELSE Retargeted(Grown(k))) = Targets(g + k, s)
    BY <2>1, <2>n, Growing DEF EnvHas
  <2>5. m \in Nat /\ g + k \in Nat /\ s \in Seq(Nat)
    BY <2>1, <2>n, <1>a DEF EnvHas
  <2>6. t \in Seq(Nat) /\ Len(t) = Len(s) + 1 /\ Used(s) \in Nat /\ Used(t) = Used(s) + n + 1
    BY <2>5, <2>n, UsedOfAppend, AppendProperties
  <2>7. Targets(g + k, t) = Append(Targets(g + k, s), [gen |-> g + k, at |-> Used(s)])
    BY <2>5, <2>n, TargetsOfAppend
  <2> HIDE DEF m, t
  <2>8. envBuf' = Buffer(g + k, m, t)
    <3>1. Buffer(g + k, m, s).strings = s
      BY DEF Buffer
    <3>2. \A a : [Buffer(g + k, m, s) EXCEPT !.strings = a] = Buffer(g + k, m, a)
      BY DEF Buffer
    <3>3. envBuf' = [Buffer(g + k, m, s) EXCEPT !.strings = Append(s, n)]
      BY <2>2, <2>4, <3>1
    <3> QED BY <3>2, <3>3 DEF t
  <2>9. envVar' = Targets(g + k, t)
    <3>1. Grown(k).gen = g + k
      BY <2>4 DEF Buffer
    <3> QED BY <2>2, <2>4, <2>7, <3>1
  <2>10. Used(t) < m
    <3>1. n + 1 <= m - Used(s) - 1
      BY <2>2, <2>4 DEF Fits, Buffer
    <3> QED BY <3>1, <2>5, <2>6, <2>n
  <2>11. EnvHas(g + k, m, t)'
    BY <2>3, <2>4, <2>5, <2>6, <2>8, <2>9, <2>10, <1>a DEF EnvHas
  <2>12. envPhase' # "none"
    BY <1>5, <2>3
  <2> QED BY <2>11, <2>12 DEF EnvInv
<1>6. ASSUME NEW n \in 0..MaxVariable, envPhase \in {"server", "headers", "configured"}, AddenvFails(n) PROVE EnvInv'
  <2>1. PICK g, l, s : EnvHas(g, l, s)
    BY <1>6 DEF EnvInv
  <2>2. PICK k \in 0..MaxGrown : envBuf' = Grown(k) /\ envVar' = IF k = 0 THEN envVar ELSE Retargeted(Grown(k))
    BY <1>6 DEF AddenvFails
  <2>n. k \in Nat
    BY <1>a
  <2>3. envPhase' = envPhase
    BY <1>6 DEF AddenvFails
  <2> DEFINE m == l + k * CgiEnvironmentSize
  <2>4. envBuf' = Buffer(g + k, m, s) /\ envVar' = Targets(g + k, s)
    BY <2>1, <2>2, <2>n, Growing DEF EnvHas
  <2>5. m \in Nat /\ g + k \in Nat /\ s \in Seq(Nat) /\ m >= l /\ l \in Nat
    BY <2>1, <2>n, <1>a DEF EnvHas
  <2>6. Used(s) \in Nat
    BY <2>5, UsedOfAppend
  <2> HIDE DEF m
  <2>7. EnvHas(g + k, m, s)'
    BY <2>1, <2>3, <2>4, <2>5, <2>6 DEF EnvHas
  <2>8. envPhase' # "none"
    BY <1>6, <2>3
  <2> QED BY <2>7, <2>8 DEF EnvInv
<1>7. CASE EnvStartFails
  <2>1. envBuf' = Buffer(0, 0, <<>>) /\ envVar' = <<>> /\ envPhase' = "failed"
    BY <1>7 DEF EnvStartFails, EnvInv, NoBuffer, Buffer
  <2>2. EnvHas(0, 0, <<>>)'
    BY <2>1, <1>a, <1>e DEF EnvHas
  <2> QED BY <2>1, <2>2 DEF EnvInv
<1> QED BY <1>1, <1>2, <1>3, <1>4, <1>5, <1>6, <1>7 DEF EnvNext

\* There is no environment block at the beginning.
LEMMA EnvBegins == EnvInit => EnvInv
BY DEF EnvInit, EnvInv

\* The invariant implies the property.
LEMMA EnvSafe == EnvInv => EnvExact
<1> SUFFICES ASSUME EnvInv, envPhase # "none" PROVE EnvExact
  BY DEF EnvExact
<1>1. PICK g, l, s : EnvHas(g, l, s)
  BY DEF EnvInv
<1>2. envBuf.strings = s /\ envBuf.gen = g /\ envBuf.buflen = l
  BY <1>1 DEF EnvHas, Buffer
<1>3. DOMAIN s = 1..Len(s) /\ Len(envVar) = Len(s)
  BY <1>1 DEF EnvHas, Targets
<1>4. envVar = [i \in DOMAIN envBuf.strings |-> Pointer(envBuf, i)]
  BY <1>1, <1>2, <1>3 DEF EnvHas, Targets, Pointer
<1> QED BY <1>1, <1>2, <1>3, <1>4 DEF EnvHas, EnvExact, bufused

-----------------------------------------------------------------------------
(* Form: the body of the request and the places in it *)

\* The tokens of a body, and those of a content.
Tok == {"e", "f", "H", "z", "r", "d", "k", "=", "&"}
ContentTok(kind) == IF kind = "multipart" THEN {"d", "r"} ELSE {"d"}
Contents(kind) == Seq(ContentTok(kind))

\* How the body of no field more ends.
Ending(kind) == IF kind = "multipart" THEN <<"e", "f", "z">> ELSE <<>>

\* F holds the bodies of the last fields, from field a on.
Bodies(kind, fields, F, a) ==
    /\ F \in [a..(Len(fields) + 1) -> Seq(Tok)]
    /\ F[Len(fields) + 1] = Ending(kind)
    /\ \A i \in a..Len(fields) : F[i] = FieldText(kind, fields, i) \o F[i + 1]

\* W is the body of the fields.
BodyOf(kind, fields, W) == \E F : Bodies(kind, fields, F, 1) /\ F[1] = W

\* Concatenation of texts.
LEMMA Assoc == \A a, b, c \in Seq(Tok) : (a \o b) \o c = a \o (b \o c) /\ a \o b \in Seq(Tok) /\ b \o c \in Seq(Tok)
<1> SUFFICES ASSUME NEW a \in Seq(Tok), NEW b \in Seq(Tok), NEW c \in Seq(Tok)
             PROVE (a \o b) \o c = a \o (b \o c) /\ a \o b \in Seq(Tok) /\ b \o c \in Seq(Tok)
  OBVIOUS
<1>1. (a \o b) \o c = a \o (b \o c)
  BY ConcatAssociative
<1>2. a \o b \in Seq(Tok) /\ b \o c \in Seq(Tok)
  BY ConcatProperties
<1> QED BY <1>1, <1>2

\* What the client sends of one field is a text,
LEMMA FieldTextIsText ==
    ASSUME NEW kind \in {"multipart", "url"}, NEW fields \in Seq(Contents(kind)), NEW i \in 1..Len(fields)
    PROVE  FieldText(kind, fields, i) \in Seq(Tok)
<1>1. fields[i] \in Seq(Tok)
  <2>1. fields[i] \in Seq(ContentTok(kind))
    BY DEF Contents
  <2>2. ContentTok(kind) \subseteq Tok
    BY DEF ContentTok, Tok
  <2> QED BY <2>1, <2>2, SeqMonotonic
<1>2. /\ <<"e", "f", "H">> \in Seq(Tok) /\ <<"r">> \in Seq(Tok)
      /\ <<"k", "=">> \in Seq(Tok) /\ <<"&">> \in Seq(Tok) /\ <<>> \in Seq(Tok)
  BY DEF Tok
<1>3. \A a, b \in Seq(Tok) : a \o b \in Seq(Tok)
  BY ConcatProperties
<1> QED BY <1>1, <1>2, <1>3 DEF FieldText

\* and so is the end of the body.
LEMMA EndingIsText == ASSUME NEW kind \in {"multipart", "url"} PROVE Ending(kind) \in Seq(Tok)
<1>1. <<"e", "f", "z">> \in Seq(Tok) /\ <<>> \in Seq(Tok)
  BY DEF Tok
<1> QED BY <1>1 DEF Ending

\* The bodies of the last fields exist, for any number of fields.
LEMMA BodiesExist ==
    ASSUME NEW kind \in {"multipart", "url"}, NEW fields \in Seq(Contents(kind))
    PROVE  \E F : Bodies(kind, fields, F, 1)
<1> DEFINE n == Len(fields)
           T == {k \in 0..n : ~\E F : Bodies(kind, fields, F, n + 1 - k)}
<1>n. n \in Nat
  OBVIOUS
<1>1. SUFFICES ASSUME T # {} PROVE FALSE
  <2>1. n \in 0..n /\ n + 1 - n = 1
    BY <1>n
  <2>2. n \notin T
    BY <1>1
  <2>3. \E F : Bodies(kind, fields, F, n + 1 - n)
    <3> HIDE DEF n
    <3> QED BY <2>1, <2>2
  <2> HIDE DEF n
  <2> QED BY <2>1, <2>3
<1>2. PICK m \in T : \A k \in T : m <= k
  <2>1. T \subseteq Nat
    OBVIOUS
  <2> HIDE DEF T
  <2> QED BY <2>1, <1>1, Least
<1> HIDE DEF n
<1>3. m # 0
  <2> DEFINE G == [i \in (n + 1)..(n + 1) |-> Ending(kind)]
  <2>1. G \in [(n + 1)..(n + 1) -> Seq(Tok)] /\ G[n + 1] = Ending(kind)
    BY <1>n, EndingIsText
  <2>2. (n + 1)..n = {} /\ n + 1 - 0 = n + 1
    BY <1>n
  <2> HIDE DEF G
  <2>3. Bodies(kind, fields, G, n + 1 - 0)
    BY <2>1, <2>2 DEF Bodies, n
  <2> QED BY <2>3, <1>2
<1>4. m - 1 \in 0..n /\ m \in 1..n
  BY <1>3, <1>n
<1>5. PICK F : Bodies(kind, fields, F, n + 1 - (m - 1))
  <2>1. m - 1 \notin T
    <3> HIDE DEF T
    <3> QED BY <1>2, <1>4
  <2> QED BY <2>1, <1>4
<1> DEFINE a == n + 1 - m
           G == [i \in a..(n + 1) |-> IF i = a THEN FieldText(kind, fields, a) \o F[a + 1] ELSE F[i]]
<1>6. a \in 1..n /\ n + 1 - (m - 1) = a + 1
  BY <1>4, <1>n
<1>7. /\ F \in [(a + 1)..(n + 1) -> Seq(Tok)] /\ F[n + 1] = Ending(kind)
      /\ \A i \in (a + 1)..n : F[i] = FieldText(kind, fields, i) \o F[i + 1]
  <2> HIDE DEF a
  <2> QED BY <1>5, <1>6 DEF Bodies, n
<1> HIDE DEF a
<1>8. FieldText(kind, fields, a) \o F[a + 1] \in Seq(Tok)
  <2>1. FieldText(kind, fields, a) \in Seq(Tok)
    BY <1>6, FieldTextIsText DEF n
  <2>2. F[a + 1] \in Seq(Tok)
    BY <1>6, <1>7, <1>n
  <2> QED BY <2>1, <2>2, ConcatProperties
<1>9. G \in [a..(n + 1) -> Seq(Tok)]
  BY <1>6, <1>7, <1>8, <1>n
<1>10. G[n + 1] = Ending(kind)
  BY <1>6, <1>7, <1>n
<1>11. ASSUME NEW i \in a..n PROVE G[i] = FieldText(kind, fields, i) \o G[i + 1]
  <2>1. i + 1 \in a..(n + 1) /\ i + 1 # a /\ i \in a..(n + 1)
    BY <1>6, <1>n
  <2>2. G[i + 1] = F[i + 1]
    BY <2>1
  <2>3. CASE i = a
    BY <2>1, <2>2, <2>3
  <2>4. CASE i # a
    <3>1. i \in (a + 1)..n
      BY <2>4, <1>6, <1>n
    <3> QED BY <2>1, <2>2, <2>4, <3>1, <1>7
  <2> QED BY <2>3, <2>4
<1> HIDE DEF G
<1>12. Bodies(kind, fields, G, a)
  BY <1>9, <1>10, <1>11 DEF Bodies, n
<1> QED BY <1>12, <1>2 DEF a

\* What the client sends, defined by recursion, is the body of the fields.
LEMMA BodyIsSent ==
    ASSUME NEW kind \in {"multipart", "url"}, NEW fields \in Seq(Contents(kind))
    PROVE  BodyOf(kind, fields, SentBody(kind, fields))
<1> DEFINE n == Len(fields)
           D(g) == [i \in 1..(n + 1) |->
                      IF i > n THEN IF kind = "multipart" THEN <<"e", "f", "z">> ELSE <<>>
                      ELSE FieldText(kind, fields, i) \o g[i + 1]]
<1>n. n \in Nat
  OBVIOUS
<1>1. PICK F : Bodies(kind, fields, F, 1)
  BY BodiesExist
<1>2. /\ F \in [1..(n + 1) -> Seq(Tok)] /\ F[n + 1] = Ending(kind)
      /\ \A i \in 1..n : F[i] = FieldText(kind, fields, i) \o F[i + 1]
  BY <1>1 DEF Bodies
<1>3. F = D(F)
  <2> HIDE DEF n
  <2>1. ASSUME NEW i \in 1..(n + 1)
        PROVE F[i] = IF i > n THEN IF kind = "multipart" THEN <<"e", "f", "z">> ELSE <<>>
                     ELSE FieldText(kind, fields, i) \o F[i + 1]
    <3>1. CASE i = n + 1
      BY <3>1, <1>2, <1>n DEF Ending
    <3>2. CASE i # n + 1
      <4>1. i \in 1..n /\ ~(i > n)
        BY <3>2, <1>n
      <4> QED BY <4>1, <1>2
    <3> QED BY <3>1, <3>2
  <2>2. F = [i \in 1..(n + 1) |-> F[i]]
    BY <1>2
  <2> QED BY <2>1, <2>2
<1>4. PICK h : h = D(h) /\ SentBody(kind, fields) = h[1]
  <2>1. SentBody(kind, fields) = (CHOOSE g : g = D(g))[1]
    BY DEF SentBody
  <2> HIDE DEF D
  <2> QED BY <1>3, <2>1
<1>5. /\ h[n + 1] = Ending(kind)
      /\ \A i \in 1..n : h[i] = FieldText(kind, fields, i) \o h[i + 1]
  <2>1. \A g : \A i \in 1..(n + 1) :
          D(g)[i] = IF i > n THEN IF kind = "multipart" THEN <<"e", "f", "z">> ELSE <<>>
                    ELSE FieldText(kind, fields, i) \o g[i + 1]
    OBVIOUS
  <2>2. \A i \in 1..(n + 1) :
          h[i] = IF i > n THEN IF kind = "multipart" THEN <<"e", "f", "z">> ELSE <<>>
                 ELSE FieldText(kind, fields, i) \o h[i + 1]
    <3> HIDE DEF D, n
    <3> QED BY <1>4, <2>1
  <2> HIDE DEF D, n
  <2>3. n + 1 \in 1..(n + 1) /\ n + 1 > n /\ \A i \in 1..n : i \in 1..(n + 1) /\ ~(i > n)
    BY <1>n
  <2> QED BY <2>2, <2>3 DEF Ending
<1> DEFINE T == {k \in 0..n : h[n + 1 - k] # F[n + 1 - k]}
<1> HIDE DEF n, D
<1>6. ASSUME T # {} PROVE FALSE
  <2>1. PICK m \in T : \A k \in T : m <= k
    <3>1. T \subseteq Nat
      BY <1>n
    <3> HIDE DEF T
    <3> QED BY <3>1, <1>6, Least
  <2>2. m # 0
    BY <1>2, <1>5, <1>n
  <2>3. m - 1 \in 0..n /\ m \in 1..n
    BY <2>2, <1>n
  <2>4. m - 1 \notin T
    <3> HIDE DEF T
    <3> QED BY <2>1, <2>3, <1>n
  <2>5. n + 1 - (m - 1) = (n + 1 - m) + 1 /\ n + 1 - m \in 1..n
    BY <2>3, <1>n
  <2>6. h[(n + 1 - m) + 1] = F[(n + 1 - m) + 1]
    BY <2>3, <2>4, <2>5
  <2> QED BY <2>1, <2>5, <2>6, <1>2, <1>5
<1>7. h[1] = F[1]
  <2>1. n \in 0..n /\ n + 1 - n = 1
    BY <1>n
  <2> QED BY <2>1, <1>6
<1> QED BY <1>1, <1>4, <1>7 DEF BodyOf

\* Field c, then the mark after it and the body W of the fields that follow; the last field
\* of a url-encoded body has no mark.
Mark(kind) == IF kind = "multipart" THEN "r" ELSE "&"
Field(kind, c, V, W) ==
    /\ c \in Contents(kind) /\ V \in Seq(Tok) /\ W \in Seq(Tok)
    /\ \A i \in 1..Len(c) : V[i] = c[i]
    /\ \/ /\ Len(V) = Len(c) + 1 + Len(W) /\ V[Len(c) + 1] = Mark(kind)
          /\ \A i \in 1..Len(W) : V[Len(c) + 1 + i] = W[i]
       \/ kind = "url" /\ Len(V) = Len(c) /\ Len(W) = 0
    /\ kind = "multipart" => Len(W) >= 3 /\ W[1] = "e" /\ W[2] = "f"

\* What comes before a content.
Opening(kind) == IF kind = "multipart" THEN <<"e", "f", "H">> ELSE <<"k", "=">>

\* The tokens of an opening.
LEMMA OpeningIsText ==
    ASSUME NEW kind \in {"multipart", "url"}
    PROVE  /\ Opening(kind) \in Seq(Tok)
           /\ kind = "multipart" => /\ Len(Opening(kind)) = 3 /\ Opening(kind)[1] = "e"
                                    /\ Opening(kind)[2] = "f" /\ Opening(kind)[3] = "H"
           /\ kind = "url" => /\ Len(Opening(kind)) = 2 /\ Opening(kind)[1] = "k"
                              /\ Opening(kind)[2] = "="
<1>1. CASE kind = "multipart"
  <2>1. <<"e", "f", "H">> \in Seq(Tok)
    BY DEF Tok
  <2> QED BY <1>1, <2>1 DEF Opening
<1>2. CASE kind = "url"
  <2>1. <<"k", "=">> \in Seq(Tok)
    BY DEF Tok
  <2> QED BY <1>2, <2>1 DEF Opening
<1> QED BY <1>1, <1>2

\* A content is a text.
LEMMA ContentIsText ==
    ASSUME NEW kind \in {"multipart", "url"}, NEW c \in Contents(kind) PROVE c \in Seq(Tok)
<1>1. c \in Seq(ContentTok(kind)) /\ ContentTok(kind) \subseteq Tok
  BY DEF Contents, ContentTok, Tok
<1> QED BY <1>1, SeqMonotonic

\* How a body begins: with a delimiter, and with the closing one if it has no field.
LEMMA BodyStarts ==
    ASSUME NEW kind \in {"multipart", "url"}, NEW fields \in Seq(Contents(kind)), NEW W,
           BodyOf(kind, fields, W)
    PROVE  /\ W \in Seq(Tok)
           /\ kind = "multipart" => Len(W) >= 3 /\ W[1] = "e" /\ W[2] = "f"
           /\ fields = <<>> => /\ kind = "multipart" => W[3] = "z"
                               /\ kind = "url" => Len(W) = 0
<1> DEFINE n == Len(fields)
<1>n. n \in Nat /\ (fields = <<>> <=> n = 0)
  OBVIOUS
<1>1. PICK F : Bodies(kind, fields, F, 1) /\ F[1] = W
  BY DEF BodyOf
<1>2. /\ F \in [1..(n + 1) -> Seq(Tok)] /\ F[n + 1] = Ending(kind)
      /\ \A i \in 1..n : F[i] = FieldText(kind, fields, i) \o F[i + 1]
  BY <1>1 DEF Bodies
<1>3. W \in Seq(Tok)
  <2> HIDE DEF n
  <2> QED BY <1>1, <1>2, <1>n
<1>4. CASE n = 0
  <2>1. W = Ending(kind)
    BY <1>1, <1>2, <1>4
  <2> QED BY <2>1, <1>3, <1>4, <1>n DEF Ending
<1>5. CASE n # 0
  <2>1. 1 \in 1..n /\ 2 \in 1..(n + 1)
    <3> HIDE DEF n
    <3> QED BY <1>5, <1>n
  <2>2. W = FieldText(kind, fields, 1) \o F[2] /\ F[2] \in Seq(Tok)
    <3> HIDE DEF n
    <3>1. 1 + 1 = 2
      OBVIOUS
    <3>2. F[1] = FieldText(kind, fields, 1) \o F[1 + 1]
      BY ONLY <2>1, <1>2
    <3> QED BY ONLY <3>1, <3>2, <2>1, <1>1, <1>2
  <2>3. FieldText(kind, fields, 1) \in Seq(Tok)
    BY <2>1, FieldTextIsText
  <2>4. SUFFICES ASSUME kind = "multipart" PROVE Len(W) >= 3 /\ W[1] = "e" /\ W[2] = "f"
    BY <1>3, <1>5, <1>n
  <2> DEFINE o == <<"e", "f", "H">>
             x == fields[1] \o <<"r">>
  <2>5. o \in Seq(Tok) /\ fields[1] \in Seq(Tok) /\ <<"r">> \in Seq(Tok)
    <3>1. o \in Seq(Tok) /\ <<"r">> \in Seq(Tok)
      BY DEF Tok
    <3>2. fields[1] \in Contents(kind)
      BY <2>1
    <3> QED BY <3>1, <3>2, ContentIsText
  <2>6. FieldText(kind, fields, 1) = o \o x /\ x \in Seq(Tok)
    <3>1. FieldText(kind, fields, 1) = (o \o fields[1]) \o <<"r">>
      BY <2>4 DEF FieldText
    <3> HIDE DEF o
    <3> QED BY ONLY <3>1, <2>5, Assoc DEF x
  <2>7. W = o \o (x \o F[2]) /\ x \o F[2] \in Seq(Tok)
    <3> HIDE DEF o, x
    <3>1. o \in Seq(Tok) /\ x \in Seq(Tok) /\ F[2] \in Seq(Tok)
      BY <2>2, <2>5, <2>6
    <3>2. W = (o \o x) \o F[2]
      BY <2>2, <2>6
    <3>3. (o \o x) \o F[2] = o \o (x \o F[2]) /\ x \o F[2] \in Seq(Tok)
      BY ONLY <3>1, Assoc, Zenon
    <3> QED BY <3>2, <3>3
  <2> DEFINE y == x \o F[2]
  <2> HIDE DEF y, x
  <2>8. Len(o) = 3 /\ o[1] = "e" /\ o[2] = "f"
    OBVIOUS
  <2> HIDE DEF o
  <2>9. Len(W) = Len(o) + Len(y) /\ Len(y) \in Nat /\ \A i \in 1..Len(o) + Len(y) : W[i] = IF i <= Len(o) THEN o[i] ELSE y[i - Len(o)]
    BY <2>5, <2>7, ConcatProperties DEF y
  <2> QED BY <2>8, <2>9
<1> QED BY <1>4, <1>5

\* The body of some fields, in parts.
HasOpening(kind, fields, B) ==
    \E V, W : Field(kind, fields[1], V, W) /\ BodyOf(kind, Tail(fields), W) /\ B = Opening(kind) \o V

\* A body with a field is its opening, its content, the mark and the body of the others.
LEMMA BodyOpens ==
    ASSUME NEW kind \in {"multipart", "url"}, NEW fields \in Seq(Contents(kind)), NEW B,
           BodyOf(kind, fields, B), fields # <<>>
    PROVE  HasOpening(kind, fields, B)
<1> DEFINE n == Len(fields)
           c == fields[1]
           fs == Tail(fields)
<1>n. n \in Nat /\ n >= 1
  OBVIOUS
<1>t. /\ fs \in Seq(Contents(kind)) /\ Len(fs) = n - 1 /\ \A i \in 1..(n - 1) : fs[i] = fields[i + 1]
  BY HeadTailProperties
<1>1. PICK F : Bodies(kind, fields, F, 1) /\ F[1] = B
  BY DEF BodyOf
<1>2. /\ F \in [1..(n + 1) -> Seq(Tok)] /\ F[n + 1] = Ending(kind)
      /\ \A i \in 1..n : F[i] = FieldText(kind, fields, i) \o F[i + 1]
  BY <1>1 DEF Bodies
<1> DEFINE G == [i \in 1..n |-> F[i + 1]]
           W == F[2]
           m == IF kind = "url" /\ n = 1 THEN <<>> ELSE <<Mark(kind)>>
           V == (c \o m) \o W
<1>3. c \in Contents(kind) /\ c \in Seq(Tok) /\ m \in Seq(Tok) /\ W \in Seq(Tok)
  <2>1. c \in Contents(kind) /\ 2 \in 1..(n + 1)
    BY <1>n
  <2>2. <<>> \in Seq(Tok) /\ <<Mark(kind)>> \in Seq(Tok)
    BY DEF Tok, Mark
  <2> HIDE DEF n
  <2> QED BY <2>1, <2>2, <1>2, ContentIsText
<1>4. BodyOf(kind, fs, W)
  <2>1. ASSUME NEW i \in 1..(n - 1) PROVE G[i] = FieldText(kind, fs, i) \o G[i + 1]
    <3>0. i \in 1..n /\ i + 1 \in 1..n /\ (i = n - 1 <=> i + 1 = n)
      BY <1>n
    <3>1. G[i] = F[i + 1] /\ G[i + 1] = F[i + 1 + 1] /\ F[i + 1] = FieldText(kind, fields, i + 1) \o F[i + 1 + 1]
      BY <3>0, <1>2
    <3>2. FieldText(kind, fs, i) = FieldText(kind, fields, i + 1)
      <4> HIDE DEF n, fs
      <4> QED BY <3>0, <1>t DEF FieldText, n
    <3> QED BY <3>1, <3>2
  <2>2. G \in [1..n -> Seq(Tok)] /\ G[n] = Ending(kind) /\ G[1] = W
    BY <1>2, <1>n
  <2>3. Len(fs) + 1 = n /\ n = Len(fields)
    BY <1>t, <1>n
  <2> HIDE DEF G, n, fs, W
  <2>4. Bodies(kind, fs, G, 1)
    BY <2>1, <2>2, <2>3, <1>t DEF Bodies
  <2> QED BY <2>2, <2>4 DEF BodyOf
<1>5. B = Opening(kind) \o V
  <2>1. B = FieldText(kind, fields, 1) \o W
    BY <1>1, <1>2, <1>n
  <2>2. FieldText(kind, fields, 1) = (Opening(kind) \o c) \o m
    BY DEF FieldText, Opening, Mark
  <2>3. Opening(kind) \in Seq(Tok)
    BY OpeningIsText
  <2> DEFINE o == Opening(kind)
  <2> HIDE DEF o, c, m, W
  <2>4. ((o \o c) \o m) \o W = (o \o (c \o m)) \o W
    BY <2>3, <1>3, Assoc DEF o
  <2>5. (o \o (c \o m)) \o W = o \o ((c \o m) \o W)
    <3>1. c \o m \in Seq(Tok)
      BY <1>3, ConcatProperties
    <3>2. o \in Seq(Tok) /\ W \in Seq(Tok)
      BY <2>3, <1>3 DEF o
    <3> QED BY ONLY <3>1, <3>2, Assoc, Zenon
  <2> QED BY <2>1, <2>2, <2>4, <2>5 DEF o
<1>6. Field(kind, c, V, W)
  <2>1. /\ c \o m \in Seq(Tok) /\ Len(c \o m) = Len(c) + Len(m)
        /\ \A i \in 1..Len(c) + Len(m) : (c \o m)[i] = IF i <= Len(c) THEN c[i] ELSE m[i - Len(c)]
    <3> HIDE DEF c, m
    <3> QED BY <1>3, ConcatProperties
  <2> DEFINE x == c \o m
  <2> HIDE DEF x
  <2>2. /\ V \in Seq(Tok) /\ Len(V) = Len(x) + Len(W)
        /\ \A i \in 1..Len(x) + Len(W) : V[i] = IF i <= Len(x) THEN x[i] ELSE W[i - Len(x)]
    <3> HIDE DEF c, m, W
    <3> QED BY <2>1, <1>3, ConcatProperties DEF x
  <2>3. Len(m) = (IF kind = "url" /\ n = 1 THEN 0 ELSE 1) /\ (Len(m) = 1 => m[1] = Mark(kind))
    OBVIOUS
  <2>4. kind = "url" /\ n = 1 => Len(W) = 0
    <3>1. ASSUME kind = "url", n = 1 PROVE W = <<>>
      BY <3>1, <1>2 DEF Ending
    <3> QED BY <3>1
  <2>5. kind = "multipart" => Len(W) >= 3 /\ W[1] = "e" /\ W[2] = "f"
    <3> HIDE DEF W, fs
    <3> QED BY <1>4, <1>t, BodyStarts
  <2>6. Len(c) \in Nat /\ Len(W) \in Nat /\ kind \in {"multipart", "url"}
    BY <1>3
  <2> HIDE DEF c, W, V, m, n
  <2>7. \A i \in 1..Len(c) : V[i] = c[i]
    BY <2>1, <2>2, <2>3, <2>6 DEF x
  <2>8. CASE kind = "url" /\ n = 1
    <3>1. Len(W) = 0 /\ Len(m) = 0 /\ Len(x) = Len(c)
      BY <2>1, <2>3, <2>4, <2>6, <2>8 DEF x
    <3>2. Len(V) = Len(c)
      BY <3>1, <2>2, <2>6
    <3> QED BY <3>1, <3>2, <2>2, <2>7, <2>8, <1>3 DEF Field
  <2>9. CASE ~(kind = "url" /\ n = 1)
    <3>1. Len(x) = Len(c) + 1 /\ x[Len(c) + 1] = Mark(kind)
      BY <2>1, <2>3, <2>6, <2>9 DEF x
    <3>2. Len(V) = Len(c) + 1 + Len(W) /\ V[Len(c) + 1] = Mark(kind)
      BY <3>1, <2>2, <2>6
    <3>3. \A i \in 1..Len(W) : V[Len(c) + 1 + i] = W[i]
      BY <3>1, <2>2, <2>6
    <3> QED BY <3>2, <3>3, <2>2, <2>5, <2>7, <1>3 DEF Field
  <2> QED BY <2>8, <2>9
<1> QED BY <1>4, <1>5, <1>6 DEF HasOpening

-----------------------------------------------------------------------------
\* The buffer from place at on, and then what mg_read has still to deliver, are what V has
\* from place o + at on: all of it in a url-encoded body.
Stream(kind, buf, body, at, V, o) ==
    /\ buf \in Seq(Tok) /\ body \in Seq(Tok) /\ V \in Seq(Tok) /\ Len(buf) <= FormBuffer
    /\ o \in Int /\ at \in 1..(Len(buf) + 1) /\ o + at >= 1
    /\ o + Len(buf) + Len(body) <= Len(V)
    /\ kind = "url" => o + Len(buf) + Len(body) = Len(V)
    /\ \A i \in at..Len(buf) : buf[i] = V[o + i]
    /\ \A i \in 1..Len(body) : body[i] = V[o + Len(buf) + i]

\* Reading more from the connection keeps the place: what mg_read delivers goes behind what
\* is in the buffer, and if nothing comes though there is room, the body is over.
LEMMA StreamFill ==
    ASSUME NEW kind, NEW buf, NEW at, NEW V, NEW o, Stream(kind, buf, formBody, at, V, o)
    PROVE  /\ Stream(kind, Filled(buf), Consumed(buf), at, V, o)
           /\ Available(buf) \in Nat /\ Len(Filled(buf)) = Len(buf) + Available(buf)
           /\ Available(buf) = 0 /\ Len(buf) < FormBuffer => Len(formBody) = 0 /\ Len(Consumed(buf)) = 0
<1> DEFINE k == Available(buf)
           add == SubSeq(formBody, 1, k)
           rest == SubSeq(formBody, k + 1, Len(formBody))
<1>a. /\ buf \in Seq(Tok) /\ formBody \in Seq(Tok) /\ V \in Seq(Tok) /\ Len(buf) <= FormBuffer
      /\ o \in Int /\ at \in 1..(Len(buf) + 1) /\ o + at >= 1
      /\ o + Len(buf) + Len(formBody) <= Len(V)
      /\ kind = "url" => o + Len(buf) + Len(formBody) = Len(V)
      /\ \A i \in at..Len(buf) : buf[i] = V[o + i]
      /\ \A i \in 1..Len(formBody) : formBody[i] = V[o + Len(buf) + i]
  BY DEF Stream
<1>f. FormBuffer \in Nat
  BY FormAssumption
<1>l. Len(buf) \in Nat /\ Len(formBody) \in Nat /\ Len(V) \in Nat
  BY <1>a
<1>1. k \in 0..Len(formBody) /\ Len(buf) + k <= FormBuffer
  BY <1>a, <1>f, <1>l DEF Available
<1>2. k = 0 /\ Len(buf) < FormBuffer => Len(formBody) = 0
  BY <1>a, <1>f, <1>l DEF Available
<1> HIDE DEF k
<1>3. /\ add \in Seq(Tok) /\ Len(add) = k /\ \A i \in 1..k : add[i] = formBody[i]
  <2>1. \A i \in 1..k : formBody[i] \in Tok
    BY <1>a, <1>l, <1>1
  <2>2. k \in Int /\ 1 \in Int
    BY <1>1
  <2> QED BY <2>1, <2>2, <1>1, SubSeqProperties
<1>4. /\ rest \in Seq(Tok) /\ Len(rest) = Len(formBody) - k
      /\ \A i \in 1..Len(rest) : rest[i] = formBody[k + i]
  <2>1. \A i \in (k + 1)..Len(formBody) : formBody[i] \in Tok
    BY <1>a, <1>l, <1>1
  <2>2. k + 1 \in Int /\ Len(formBody) \in Int
    BY <1>1, <1>l
  <2>3. /\ rest \in Seq(Tok)
        /\ Len(rest) = IF k + 1 <= Len(formBody) THEN Len(formBody) - (k + 1) + 1 ELSE 0
        /\ \A i \in 1..Len(formBody) - (k + 1) + 1 : rest[i] = formBody[k + 1 + i - 1]
    BY <2>1, <2>2, SubSeqProperties
  <2> HIDE DEF rest
  <2>4. Len(rest) = Len(formBody) - k
    BY <2>3, <1>1, <1>l
  <2>5. \A i \in 1..Len(rest) : rest[i] = formBody[k + i]
    BY <2>3, <2>4, <1>1, <1>l
  <2> QED BY <2>3, <2>4, <2>5
<1> DEFINE new == buf \o add
<1> HIDE DEF add, rest
<1>5. /\ new \in Seq(Tok) /\ Len(new) = Len(buf) + k
      /\ \A i \in 1..Len(buf) + k : new[i] = IF i <= Len(buf) THEN buf[i] ELSE add[i - Len(buf)]
  <2>1. /\ new \in Seq(Tok) /\ Len(new) = Len(buf) + Len(add)
        /\ \A i \in 1..Len(buf) + Len(add) : new[i] = IF i <= Len(buf) THEN buf[i] ELSE add[i - Len(buf)]
    <3>1. buf \in Seq(Tok) /\ add \in Seq(Tok)
      BY <1>3, <1>a
    <3> QED BY ONLY <3>1, ConcatProperties
  <2> HIDE DEF new
  <2> QED BY <2>1, <1>3
<1>6. Filled(buf) = new /\ Consumed(buf) = rest
  BY DEF Filled, Consumed, add, rest, k
<1> HIDE DEF new
<1>7. at \in 1..(Len(new) + 1) /\ Len(new) <= FormBuffer
  BY <1>5, <1>a, <1>l, <1>1
<1>8. o + Len(new) + Len(rest) = o + Len(buf) + Len(formBody)
  BY <1>5, <1>4, <1>a, <1>l, <1>1
<1>9. \A i \in at..Len(new) : new[i] = V[o + i]
  <2>1. SUFFICES ASSUME NEW i \in at..Len(new) PROVE new[i] = V[o + i]
    OBVIOUS
  <2>2. i \in Int /\ i >= at /\ i <= Len(buf) + k /\ i >= 1
    BY <1>5, <1>a, <1>l, <1>1
  <2>3. CASE i <= Len(buf)
    <3>1. new[i] = buf[i] /\ i \in at..Len(buf)
      BY <2>2, <2>3, <1>5, <1>l, <1>1
    <3> QED BY <3>1, <1>a
  <2>4. CASE i > Len(buf)
    <3>1. i - Len(buf) \in 1..k /\ i - Len(buf) \in 1..Len(formBody) /\ new[i] = add[i - Len(buf)]
      BY <2>2, <2>4, <1>5, <1>l, <1>1
    <3>2. new[i] = formBody[i - Len(buf)]
      BY <3>1, <1>3
    <3>3. formBody[i - Len(buf)] = V[o + Len(buf) + (i - Len(buf))] /\ o + Len(buf) + (i - Len(buf)) = o + i
      BY <3>1, <2>2, <1>a, <1>l
    <3> QED BY <3>2, <3>3
  <2> QED BY <2>2, <2>3, <2>4, <1>l
<1>10. \A i \in 1..Len(rest) : rest[i] = V[o + Len(new) + i]
  <2>1. SUFFICES ASSUME NEW i \in 1..Len(rest) PROVE rest[i] = V[o + Len(new) + i]
    OBVIOUS
  <2>2. k + i \in 1..Len(formBody) /\ rest[i] = formBody[k + i]
    BY <1>4, <1>l, <1>1
  <2>3. formBody[k + i] = V[o + Len(buf) + (k + i)]
    BY <2>2, <1>a
  <2>4. o + Len(buf) + (k + i) = o + Len(new) + i
    BY <1>5, <1>a, <1>l, <1>1, <1>4
  <2> QED BY <2>2, <2>3, <2>4
<1>11. Stream(kind, new, rest, at, V, o)
  BY <1>4, <1>5, <1>7, <1>8, <1>9, <1>10, <1>a DEF Stream
<1>12. k = 0 /\ Len(buf) < FormBuffer => Len(formBody) = 0 /\ Len(rest) = 0
  BY <1>2, <1>4, <1>1, <1>l
<1> QED BY <1>5, <1>6, <1>11, <1>12, <1>1 DEF k

\* What is before place a of the buffer is removed and the rest moved to its front.
LEMMA StreamDrop ==
    ASSUME NEW kind, NEW buf, NEW body, NEW at, NEW V, NEW o, Stream(kind, buf, body, at, V, o),
           NEW a \in at..(Len(buf) + 1)
    PROVE  Stream(kind, SubSeq(buf, a, Len(buf)), body, 1, V, o + a - 1) /\ Len(SubSeq(buf, a, Len(buf))) = Len(buf) - a + 1
<1> DEFINE new == SubSeq(buf, a, Len(buf))
<1>a. /\ buf \in Seq(Tok) /\ body \in Seq(Tok) /\ V \in Seq(Tok) /\ Len(buf) <= FormBuffer
      /\ o \in Int /\ at \in 1..(Len(buf) + 1) /\ o + at >= 1
      /\ o + Len(buf) + Len(body) <= Len(V)
      /\ kind = "url" => o + Len(buf) + Len(body) = Len(V)
      /\ \A i \in at..Len(buf) : buf[i] = V[o + i]
      /\ \A i \in 1..Len(body) : body[i] = V[o + Len(buf) + i]
  BY DEF Stream
<1>f. FormBuffer \in Nat
  BY FormAssumption
<1>l. Len(buf) \in Nat /\ Len(body) \in Nat /\ Len(V) \in Nat
  BY <1>a
<1>1. a \in Int /\ a >= at /\ a >= 1 /\ a <= Len(buf) + 1
  BY <1>a, <1>l
<1>2. /\ new \in Seq(Tok) /\ Len(new) = Len(buf) - a + 1
      /\ \A i \in 1..Len(new) : new[i] = buf[a + i - 1]
  <2>1. \A i \in a..Len(buf) : buf[i] \in Tok
    BY <1>a, <1>l, <1>1
  <2>2. Len(buf) \in Int
    BY <1>l
  <2>3. /\ new \in Seq(Tok)
        /\ Len(new) = IF a <= Len(buf) THEN Len(buf) - a + 1 ELSE 0
        /\ \A i \in 1..Len(buf) - a + 1 : new[i] = buf[a + i - 1]
    BY <2>1, <2>2, <1>1, SubSeqProperties
  <2> HIDE DEF new
  <2>4. Len(new) = Len(buf) - a + 1
    BY <2>3, <1>1, <1>l
  <2> QED BY <2>3, <2>4
<1> HIDE DEF new
<1>3. \A i \in 1..Len(new) : new[i] = V[o + a - 1 + i]
  <2>1. SUFFICES ASSUME NEW i \in 1..Len(new) PROVE new[i] = V[o + a - 1 + i]
    OBVIOUS
  <2>2. a + i - 1 \in at..Len(buf) /\ o + (a + i - 1) = o + a - 1 + i
    BY <1>2, <1>1, <1>l, <1>a
  <2> QED BY <2>2, <1>2, <1>a
<1>4. \A i \in 1..Len(body) : body[i] = V[o + a - 1 + Len(new) + i]
  <2>1. SUFFICES ASSUME NEW i \in 1..Len(body) PROVE body[i] = V[o + a - 1 + Len(new) + i]
    OBVIOUS
  <2>2. o + a - 1 + Len(new) + i = o + Len(buf) + i
    BY <1>2, <1>1, <1>l, <1>a
  <2> QED BY <2>2, <1>a
<1>5. /\ o + a - 1 \in Int /\ 1 \in 1..(Len(new) + 1) /\ o + a - 1 + 1 >= 1
      /\ o + a - 1 + Len(new) + Len(body) = o + Len(buf) + Len(body) /\ Len(new) <= FormBuffer
  BY <1>2, <1>1, <1>l, <1>a, <1>f
<1>6. Stream(kind, new, body, 1, V, o + a - 1)
  BY <1>2, <1>3, <1>4, <1>5, <1>a DEF Stream
<1> QED BY <1>6, <1>2 DEF new

\* The same place in the part W of V.
LEMMA StreamInto ==
    ASSUME NEW kind, NEW buf, NEW body, NEW at, NEW V, NEW o, Stream(kind, buf, body, at, V, o),
           NEW W \in Seq(Tok), NEW p \in Nat, Len(V) = p + Len(W), o - p + at >= 1,
           \A i \in 1..Len(W) : V[p + i] = W[i]
    PROVE  Stream(kind, buf, body, at, W, o - p)
<1>a. /\ buf \in Seq(Tok) /\ body \in Seq(Tok) /\ V \in Seq(Tok) /\ Len(buf) <= FormBuffer
      /\ o \in Int /\ at \in 1..(Len(buf) + 1) /\ o + at >= 1
      /\ o + Len(buf) + Len(body) <= Len(V)
      /\ kind = "url" => o + Len(buf) + Len(body) = Len(V)
      /\ \A i \in at..Len(buf) : buf[i] = V[o + i]
      /\ \A i \in 1..Len(body) : body[i] = V[o + Len(buf) + i]
  BY DEF Stream
<1>l. Len(buf) \in Nat /\ Len(body) \in Nat /\ Len(V) \in Nat /\ Len(W) \in Nat
  BY <1>a
<1>n. o + Len(buf) + Len(body) <= p + Len(W) /\ o \in Int /\ at \in Int /\ p \in Nat /\ o - p + at >= 1
  BY <1>a, <1>l
<1>1. ASSUME NEW i \in at..Len(buf) PROVE buf[i] = W[o - p + i]
  <2>1. i \in Int /\ i >= at /\ i <= Len(buf) /\ at \in Int
    BY <1>a, <1>l
  <2>2. o - p + i \in 1..Len(W) /\ p + (o - p + i) = o + i
    <3>1. o + Len(buf) <= p + Len(W)
      BY <1>n, <1>l
    <3>2. o - p + i >= 1 /\ o - p + i <= Len(W)
      BY <2>1, <3>1, <1>n, <1>l
    <3> QED BY <2>1, <3>2, <1>n, <1>l
  <2> QED BY <2>2, <1>a
<1>2. ASSUME NEW i \in 1..Len(body) PROVE body[i] = W[o - p + Len(buf) + i]
  <2>0. at <= Len(buf) + 1 /\ i \in Int /\ 1 <= i /\ i <= Len(body)
    BY <1>a, <1>l
  <2>1. o - p + Len(buf) + i \in 1..Len(W) /\ p + (o - p + Len(buf) + i) = o + Len(buf) + i
    BY <2>0, <1>n, <1>l
  <2> QED BY <2>1, <1>a
<1>3. o - p \in Int /\ o - p + Len(buf) + Len(body) <= Len(W)
      /\ (kind = "url" => o - p + Len(buf) + Len(body) = Len(W))
  BY <1>a, <1>l
<1> QED BY <1>1, <1>2, <1>3, <1>a DEF Stream

\* The first d tokens of c have been received.
Received(got, c, d) == got \in Seq(Tok) /\ Len(got) = d /\ \A i \in 1..d : got[i] = c[i]

\* A block that is the next part of c is received.
LEMMA ReceivesMore ==
    ASSUME NEW got, NEW c, NEW d \in Nat, Received(got, c, d), NEW block \in Seq(Tok), NEW e,
           e = d + Len(block), \A i \in 1..Len(block) : block[i] = c[d + i]
    PROVE  Received(got \o block, c, e)
<1>1. got \in Seq(Tok) /\ Len(got) = d /\ \A i \in 1..d : got[i] = c[i]
  BY DEF Received
<1> DEFINE new == got \o block
<1>2. /\ new \in Seq(Tok) /\ Len(new) = Len(got) + Len(block)
      /\ \A i \in 1..Len(got) + Len(block) : new[i] = IF i <= Len(got) THEN got[i] ELSE block[i - Len(got)]
  BY <1>1, ConcatProperties
<1>l. Len(block) \in Nat
  OBVIOUS
<1> HIDE DEF new
<1>3. ASSUME NEW i \in 1..e PROVE new[i] = c[i]
  <2>1. CASE i <= d
    BY <2>1, <1>1, <1>2, <1>l
  <2>2. CASE i > d
    <3>1. i - d \in 1..Len(block) /\ d + (i - d) = i /\ new[i] = block[i - d]
      BY <2>2, <1>1, <1>2, <1>l
    <3> QED BY <3>1
  <2> QED BY <2>1, <2>2, <1>l
<1>4. Received(new, c, e)
  BY <1>1, <1>2, <1>3 DEF Received
<1> QED BY <1>4 DEF new

\* When as many tokens as c has are received, it is c.
LEMMA ReceivedAll ==
    ASSUME NEW c \in Seq(Tok), NEW got, Received(got, c, Len(c)) PROVE got = c
BY SeqEqual DEF Received

-----------------------------------------------------------------------------
\* What is in the buffer and still to be delivered is the body of the fields.
AtField(kind, fields, buf, body) ==
    fields \in Seq(Contents(kind)) /\ \E W : BodyOf(kind, fields, W) /\ Stream(kind, buf, body, 1, W, 0)

\* It is the rest of the content of the first field, and the body of the others; what was
\* before has been received.
InField(kind, fields, buf, body, at, got, take) ==
    /\ fields \in Seq(Contents(kind)) /\ fields # <<>>
    /\ \E V, W, o : /\ Field(kind, fields[1], V, W) /\ BodyOf(kind, Tail(fields), W)
                    /\ Stream(kind, buf, body, at, V, o) /\ o + at - 1 <= Len(fields[1])
                    /\ take => Received(got, fields[1], o + at - 1)

\* Behind the opening the content of the first field begins.
LEMMA FieldBegins ==
    ASSUME NEW kind \in {"multipart", "url"}, NEW fields, NEW buf, NEW body, AtField(kind, fields, buf, body),
           NEW at, at = (IF kind = "multipart" THEN 4 ELSE 3), at <= Len(buf) + 1, fields # <<>>
    PROVE  InField(kind, fields, buf, body, at, <<>>, TRUE)
<1>1. PICK B : BodyOf(kind, fields, B) /\ Stream(kind, buf, body, 1, B, 0)
  BY DEF AtField
<1>2. fields \in Seq(Contents(kind))
  BY DEF AtField
<1>3. PICK V, W : Field(kind, fields[1], V, W) /\ BodyOf(kind, Tail(fields), W) /\ B = Opening(kind) \o V
  <2>1. kind \in {"multipart", "url"} /\ fields \in Seq(Contents(kind)) /\ BodyOf(kind, fields, B) /\ fields # <<>>
    BY <1>1, <1>2
  <2>2. HasOpening(kind, fields, B)
    BY ONLY <2>1, BodyOpens
  <2> QED BY <2>2 DEF HasOpening
<1> DEFINE x == Opening(kind)
<1>4. V \in Seq(Tok) /\ x \in Seq(Tok) /\ fields[1] \in Seq(Tok)
  <2>1. fields[1] \in Contents(kind)
    BY <1>2
  <2> QED BY <1>3, <2>1, OpeningIsText, ContentIsText DEF Field
<1> HIDE DEF x
<1>5. Len(B) = Len(x) + Len(V) /\ \A i \in 1..Len(x) + Len(V) : B[i] = IF i <= Len(x) THEN x[i] ELSE V[i - Len(x)]
  <2>1. B = x \o V
    BY <1>3 DEF x
  <2> QED BY ONLY <1>4, <2>1, ConcatProperties
<1>6. Len(x) \in Nat /\ Len(V) \in Nat /\ at = Len(x) + 1
  <2>1. Len(x) = IF kind = "multipart" THEN 3 ELSE 2
    BY OpeningIsText DEF x
  <2> QED BY <1>4, <2>1
<1>7. ASSUME NEW i \in 1..Len(V) PROVE B[Len(x) + i] = V[i]
  <2>1. Len(x) + i \in 1..Len(x) + Len(V) /\ ~(Len(x) + i <= Len(x)) /\ Len(x) + i - Len(x) = i
    BY <1>6
  <2>2. B[Len(x) + i] = V[Len(x) + i - Len(x)]
    BY ONLY <2>1, <1>5
  <2> QED BY <2>1, <2>2
<1>8. Stream(kind, buf, body, at, B, 0)
  <2>1. at \in 1..(Len(buf) + 1)
    BY <1>1, <1>6 DEF Stream
  <2>2. 0 + at >= 1 /\ \A i \in at..Len(buf) : i \in 1..Len(buf)
    BY <1>6
  <2> QED BY <1>1, <2>1, <2>2 DEF Stream
<1>9. Stream(kind, buf, body, at, V, 0 - Len(x))
  <2>1. Len(x) \in Nat /\ Len(B) = Len(x) + Len(V) /\ 0 - Len(x) + at >= 1 /\ V \in Seq(Tok)
    BY <1>4, <1>5, <1>6
  <2> QED BY ONLY <2>1, <1>7, <1>8, StreamInto
<1>10. Received(<<>>, fields[1], 0) /\ 0 - Len(x) + at - 1 = 0 /\ 0 <= Len(fields[1])
  BY <1>4, <1>6 DEF Received
<1> QED BY <1>2, <1>3, <1>9, <1>10 DEF InField

\* The first delimiter is the end of the content.
LEMMA Boundary ==
    ASSUME NEW c, NEW V, NEW W, Field("multipart", c, V, W), NEW v \in Nat \ {0}, v + 2 <= Len(V)
    PROVE  /\ V[v] = "r" /\ V[v + 1] = "e" /\ V[v + 2] = "f" => v >= Len(c) + 1
           /\ v = Len(c) + 1 => V[v] = "r" /\ V[v + 1] = "e" /\ V[v + 2] = "f"
<1>1. /\ \A i \in 1..Len(c) : V[i] = c[i] /\ c[i] \in {"d", "r"}
      /\ Len(V) = Len(c) + 1 + Len(W) /\ V[Len(c) + 1] = "r"
      /\ \A i \in 1..Len(W) : V[Len(c) + 1 + i] = W[i]
      /\ Len(W) >= 3 /\ W[1] = "e" /\ W[2] = "f" /\ Len(c) \in Nat /\ Len(W) \in Nat
  <2>1. c \in Seq({"d", "r"}) /\ W \in Seq(Tok)
    BY DEF Field, Contents, ContentTok
  <2>2. Len(c) \in Nat /\ Len(W) \in Nat /\ \A i \in 1..Len(c) : c[i] \in {"d", "r"}
    BY <2>1
  <2> QED BY <2>2 DEF Field, Mark
<1>2. V[Len(c) + 1 + 1] = "e" /\ V[Len(c) + 1 + 2] = "f"
  <2>1. 1 \in 1..Len(W) /\ 2 \in 1..Len(W)
    BY <1>1
  <2> QED BY <2>1, <1>1
<1>3. ASSUME v <= Len(c) PROVE V[v + 1] # "e"
  <2>1. CASE v + 1 <= Len(c)
    <3>1. v + 1 \in 1..Len(c)
      BY <1>1, <2>1
    <3>2. V[v + 1] \in {"d", "r"}
      BY <3>1, <1>1
    <3> QED BY <3>2
  <2>2. CASE v + 1 = Len(c) + 1
    BY <1>1, <2>2
  <2> QED BY <1>1, <1>3, <2>1, <2>2
<1>4. v = Len(c) + 1 => v + 1 = Len(c) + 1 + 1 /\ v + 2 = Len(c) + 1 + 2
  BY <1>1
<1> QED BY <1>1, <1>2, <1>3, <1>4

\* The buffer has a delimiter at place i.
HasDelimiter(buf, i) == i + 2 <= Len(buf) /\ buf[i] = "r" /\ buf[i + 1] = "e" /\ buf[i + 2] = "f"

\* search_boundary finds the first delimiter in the buffer, if there is one.
LEMMA Search ==
    ASSUME NEW buf \in Seq(Tok), NEW from \in Nat \ {0}
    PROVE  /\ search_boundary(buf, from) = 0 <=> ~\E i \in Nat : i >= from /\ HasDelimiter(buf, i)
           /\ search_boundary(buf, from) # 0 =>
                 /\ search_boundary(buf, from) \in Nat /\ search_boundary(buf, from) >= from
                 /\ HasDelimiter(buf, search_boundary(buf, from))
                 /\ \A i \in Nat : i >= from /\ HasDelimiter(buf, i) => search_boundary(buf, from) <= i
<1> DEFINE hits == {i \in from..(Len(buf) - DelimiterLen + 1) : SubSeq(buf, i, i + DelimiterLen - 1) = Delimiter}
<1>l. Len(buf) \in Nat /\ DelimiterLen = 3 /\ Delimiter = <<"r", "e", "f">>
  BY DEF DelimiterLen, Delimiter
<1>1. ASSUME NEW i \in Nat PROVE i \in hits <=> i >= from /\ HasDelimiter(buf, i)
  <2>1. i >= from /\ i + 2 <= Len(buf) => (SubSeq(buf, i, i + 3 - 1) = <<"r", "e", "f">> <=> buf[i] = "r" /\ buf[i + 1] = "e" /\ buf[i + 2] = "f")
    <3>1. SUFFICES ASSUME i >= from, i + 2 <= Len(buf)
                   PROVE  SubSeq(buf, i, i + 3 - 1) = <<"r", "e", "f">> <=> buf[i] = "r" /\ buf[i + 1] = "e" /\ buf[i + 2] = "f"
      OBVIOUS
    <3> DEFINE t == SubSeq(buf, i, i + 3 - 1)
               u == <<"r", "e", "f">>
    <3>2. t \in Seq(Tok) /\ Len(t) = 3 /\ t[1] = buf[i] /\ t[2] = buf[i + 1] /\ t[3] = buf[i + 2]
      <4>1. /\ t \in Seq(Tok) /\ Len(t) = (IF i <= i + 3 - 1 THEN i + 3 - 1 - i + 1 ELSE 0)
            /\ \A j \in 1..(i + 3 - 1) - i + 1 : t[j] = buf[i + j - 1]
        <5>1. \A j \in i..(i + 3 - 1) : buf[j] \in Tok
          BY <3>1, <1>l
        <5>2. i \in Int /\ i + 3 - 1 \in Int
          OBVIOUS
        <5> QED BY <5>1, <5>2, SubSeqProperties
      <4> HIDE DEF t
      <4>2. Len(t) = 3 /\ \A j \in 1..3 : t[j] = buf[i + j - 1]
        BY <4>1
      <4>3. i + 1 - 1 = i /\ i + 2 - 1 = i + 1 /\ i + 3 - 1 = i + 2
        OBVIOUS
      <4> QED BY <4>1, <4>2, <4>3
    <3>3. u \in Seq(Tok) /\ Len(u) = 3 /\ u[1] = "r" /\ u[2] = "e" /\ u[3] = "f"
      BY DEF Tok
    <3> HIDE DEF t, u
    <3>4. t = u <=> t[1] = u[1] /\ t[2] = u[2] /\ t[3] = u[3]
      <4>1. ASSUME t[1] = u[1] /\ t[2] = u[2] /\ t[3] = u[3] PROVE t = u
        <5>1. \A j \in 1..3 : t[j] = u[j]
          <6>1. \A j \in 1..3 : j = 1 \/ j = 2 \/ j = 3
            OBVIOUS
          <6> QED BY <6>1, <4>1
        <5> QED BY <3>2, <3>3, <5>1, SeqEqual
      <4> QED BY <4>1
    <3>5. t = u <=> buf[i] = "r" /\ buf[i + 1] = "e" /\ buf[i + 2] = "f"
      BY ONLY <3>2, <3>3, <3>4
    <3> QED BY <3>5 DEF t, u
  <2>2. i \in hits <=> i \in from..(Len(buf) - 3 + 1) /\ SubSeq(buf, i, i + 3 - 1) = <<"r", "e", "f">>
    BY <1>l
  <2>3. i \in from..(Len(buf) - 3 + 1) <=> i >= from /\ i + 2 <= Len(buf)
    BY <1>l
  <2> QED BY <2>1, <2>2, <2>3 DEF HasDelimiter
<1>2. hits \subseteq Nat
  BY <1>l
<1>3. search_boundary(buf, from) = IF hits = {} THEN 0 ELSE CHOOSE i \in hits : \A j \in hits : i <= j
  BY DEF search_boundary
<1> HIDE DEF hits
<1>4. CASE hits = {}
  BY <1>1, <1>2, <1>3, <1>4
<1>5. CASE hits # {}
  <2>1. \E i \in hits : \A j \in hits : i <= j
    BY <1>2, <1>5, Least
  <2>2. search_boundary(buf, from) \in hits /\ \A j \in hits : search_boundary(buf, from) <= j
    BY <2>1, <1>3, <1>5
  <2>3. search_boundary(buf, from) \in Nat /\ search_boundary(buf, from) >= from
    BY <2>2, <1>1, <1>2
  <2> QED BY <2>2, <2>3, <1>1, <1>2
<1> QED BY <1>4, <1>5

\* Both places stay when more is read.
LEMMA AtFieldFill ==
    ASSUME NEW kind, NEW fields, NEW buf, AtField(kind, fields, buf, formBody)
    PROVE  AtField(kind, fields, Filled(buf), Consumed(buf))
<1>1. PICK W : BodyOf(kind, fields, W) /\ Stream(kind, buf, formBody, 1, W, 0)
  BY DEF AtField
<1>2. Stream(kind, Filled(buf), Consumed(buf), 1, W, 0)
  BY <1>1, StreamFill
<1> QED BY <1>1, <1>2 DEF AtField

\* The same inside a content.
LEMMA InFieldFill ==
    ASSUME NEW kind, NEW fields, NEW buf, NEW at, NEW got, NEW take,
           InField(kind, fields, buf, formBody, at, got, take)
    PROVE  InField(kind, fields, Filled(buf), Consumed(buf), at, got, take)
<1>1. PICK V, W, o : /\ Field(kind, fields[1], V, W) /\ BodyOf(kind, Tail(fields), W)
                     /\ Stream(kind, buf, formBody, at, V, o) /\ o + at - 1 <= Len(fields[1])
                     /\ take => Received(got, fields[1], o + at - 1)
  BY DEF InField
<1>2. Stream(kind, Filled(buf), Consumed(buf), at, V, o)
  BY <1>1, StreamFill
<1> QED BY <1>1, <1>2 DEF InField

\* When the part of the buffer from at to a - 1 belongs to the content, it is the next block.
LEMMA Advance ==
    ASSUME NEW kind, NEW c, NEW V, NEW W, Field(kind, c, V, W),
           NEW buf, NEW body, NEW at, NEW o, Stream(kind, buf, body, at, V, o),
           NEW a \in at..(Len(buf) + 1), o + a - 1 <= Len(c), NEW got, Received(got, c, o + at - 1)
    PROVE  Received(got \o SubSeq(buf, at, a - 1), c, o + a - 1)
<1>a. /\ buf \in Seq(Tok) /\ V \in Seq(Tok) /\ o \in Int /\ at \in 1..(Len(buf) + 1) /\ o + at >= 1
      /\ \A i \in at..Len(buf) : buf[i] = V[o + i]
  BY DEF Stream
<1>l. Len(buf) \in Nat /\ at \in Int /\ a \in Int /\ at >= 1 /\ a >= at /\ a <= Len(buf) + 1
  BY <1>a
<1>c. Len(c) \in Nat /\ \A i \in 1..Len(c) : V[i] = c[i]
  BY DEF Field, Contents
<1> DEFINE block == SubSeq(buf, at, a - 1)
<1>1. block \in Seq(Tok) /\ Len(block) = a - at /\ \A i \in 1..Len(block) : block[i] = buf[at + i - 1]
  <2>1. \A i \in at..(a - 1) : buf[i] \in Tok
    BY <1>a, <1>l
  <2>2. a - 1 \in Int
    BY <1>l
  <2>3. /\ block \in Seq(Tok) /\ Len(block) = (IF at <= a - 1 THEN a - 1 - at + 1 ELSE 0)
        /\ \A i \in 1..(a - 1) - at + 1 : block[i] = buf[at + i - 1]
    BY <2>1, <2>2, <1>l, SubSeqProperties
  <2> HIDE DEF block
  <2>4. Len(block) = a - at
    BY <2>3, <1>l
  <2> QED BY <2>3, <2>4, <1>l
<1> HIDE DEF block
<1>2. ASSUME NEW i \in 1..Len(block) PROVE block[i] = c[o + at - 1 + i]
  <2>1. at + i - 1 \in at..Len(buf) /\ o + (at + i - 1) = o + at - 1 + i
    BY <1>1, <1>l, <1>a
  <2>2. o + at - 1 + i \in 1..Len(c)
    BY <1>1, <1>l, <1>a, <1>c
  <2> QED BY <2>1, <2>2, <1>1, <1>a, <1>c
<1>3. o + at - 1 \in Nat /\ o + a - 1 = o + at - 1 + Len(block)
  BY <1>1, <1>l, <1>a
<1>4. Received(got \o block, c, o + a - 1)
  BY <1>1, <1>2, <1>3, ReceivesMore
<1> QED BY <1>4 DEF block

\* A block of a multipart content: there is no delimiter in the buffer, and all but its last
\* three tokens, the length of a delimiter, is delivered; what is kept can be the beginning of
\* a delimiter, and what is delivered cannot (mg_handle_form_request).
LEMMA BlockInField ==
    ASSUME NEW fields, NEW buf, NEW body, NEW at, NEW got, NEW take,
           InField("multipart", fields, buf, body, at, got, take), search_boundary(buf, at) = 0,
           Len(buf) - at + 1 >= DelimiterLen
    PROVE  /\ Len(KeptTail(buf)) = 3
           /\ InField("multipart", fields, KeptTail(buf), body, 1,
                      got \o SubSeq(buf, at, Len(buf) - Len(KeptTail(buf))), take)
<1>1. PICK V, W, o : /\ Field("multipart", fields[1], V, W) /\ BodyOf("multipart", Tail(fields), W)
                     /\ Stream("multipart", buf, body, at, V, o) /\ o + at - 1 <= Len(fields[1])
                     /\ take => Received(got, fields[1], o + at - 1)
  BY DEF InField
<1>2. fields \in Seq(Contents("multipart")) /\ fields # <<>>
  BY DEF InField
<1> DEFINE c == fields[1]
           a == Len(buf) - 3 + 1
<1>a. /\ buf \in Seq(Tok) /\ o \in Int /\ at \in 1..(Len(buf) + 1) /\ o + at >= 1
      /\ o + Len(buf) <= Len(V) /\ \A i \in at..Len(buf) : buf[i] = V[o + i]
  BY <1>1 DEF Stream
<1>l. Len(buf) \in Nat /\ at \in Int /\ at >= 1 /\ Len(buf) - at + 1 >= 3
  BY <1>a DEF DelimiterLen, Delimiter
<1>c. Len(c) \in Nat /\ o + at - 1 <= Len(c)
  BY <1>1 DEF Field, Contents
<1>3. o + a - 1 <= Len(c)
  <2>1. SUFFICES ASSUME o + Len(buf) >= Len(c) + 3 PROVE FALSE
    <3> HIDE DEF c
    <3> QED BY <1>a, <1>l, <1>c
  <2> DEFINE v == Len(c) + 1
             i == v - o
  <2>2. v \in Nat \ {0} /\ v + 2 <= Len(V)
    <3> HIDE DEF c
    <3> QED BY <2>1, <1>a, <1>c
  <2>3. V[v] = "r" /\ V[v + 1] = "e" /\ V[v + 2] = "f"
    BY <2>2, <1>1, Boundary
  <2>4. i \in Nat /\ i >= at /\ i + 2 <= Len(buf) /\ o + i = v /\ o + (i + 1) = v + 1 /\ o + (i + 2) = v + 2
    <3> HIDE DEF c
    <3> QED BY <2>1, <1>a, <1>c, <1>l
  <2>5. buf[i] = "r" /\ buf[i + 1] = "e" /\ buf[i + 2] = "f"
    <3> HIDE DEF c, i, v
    <3>1. i \in at..Len(buf) /\ i + 1 \in at..Len(buf) /\ i + 2 \in at..Len(buf)
      BY <2>4, <1>l
    <3> QED BY <3>1, <2>3, <2>4, <1>a
  <2> HIDE DEF i
  <2>6. HasDelimiter(buf, i)
    BY <2>4, <2>5 DEF HasDelimiter
  <2> QED BY <2>4, <2>6, <1>a, <1>l, Search
<1>4. a \in at..(Len(buf) + 1)
  BY <1>l
<1>5. KeptTail(buf) = SubSeq(buf, a, Len(buf))
  BY DEF KeptTail, DelimiterLen, Delimiter
<1> HIDE DEF a
<1>6. Stream("multipart", KeptTail(buf), body, 1, V, o + a - 1) /\ Len(KeptTail(buf)) = Len(buf) - a + 1
  BY <1>1, <1>4, <1>5, StreamDrop
<1>7. Len(KeptTail(buf)) = 3 /\ Len(buf) - Len(KeptTail(buf)) = a - 1
  BY <1>6, <1>l DEF a
<1>8. take => Received(got \o SubSeq(buf, at, a - 1), c, o + a - 1)
  BY <1>1, <1>3, <1>4, Advance
<1>9. o + a - 1 + 1 - 1 = o + a - 1
  BY <1>a, <1>l DEF a
<1>10. InField("multipart", fields, KeptTail(buf), body, 1, got \o SubSeq(buf, at, a - 1), take)
  BY <1>1, <1>2, <1>3, <1>6, <1>8, <1>9 DEF InField
<1> QED BY <1>7, <1>10

\* The buffer is divided at the delimiter.
LastSplit(fields, buf, body, at, got, take, next) ==
    /\ AtField("multipart", Tail(fields), SubSeq(buf, next + 1, Len(buf)), body)
    /\ take = TRUE => got \o SubSeq(buf, at, next - 1) = fields[1]

\* The last block of a multipart content ends where search_boundary finds the delimiter, and
\* behind it is the body of the other fields.
LEMMA LastInField ==
    ASSUME NEW fields, NEW buf, NEW body, NEW at, NEW got, NEW take,
           InField("multipart", fields, buf, body, at, got, take), search_boundary(buf, at) # 0,
           NEW next, search_boundary(buf, at) = next
    PROVE  LastSplit(fields, buf, body, at, got, take, next)
<1>1. PICK V, W, o : /\ Field("multipart", fields[1], V, W) /\ BodyOf("multipart", Tail(fields), W)
                     /\ Stream("multipart", buf, body, at, V, o) /\ o + at - 1 <= Len(fields[1])
                     /\ take => Received(got, fields[1], o + at - 1)
  BY DEF InField
<1>2. fields \in Seq(Contents("multipart")) /\ fields # <<>>
  BY DEF InField
<1> DEFINE c == fields[1]
<1>a. /\ buf \in Seq(Tok) /\ o \in Int /\ at \in 1..(Len(buf) + 1) /\ o + at >= 1
      /\ o + Len(buf) <= Len(V) /\ \A i \in at..Len(buf) : buf[i] = V[o + i]
  BY <1>1 DEF Stream
<1>l. Len(buf) \in Nat /\ at \in Int /\ at >= 1
  BY <1>a
<1>c. Len(c) \in Nat /\ o + at - 1 <= Len(c) /\ c \in Seq(Tok) /\ W \in Seq(Tok)
      /\ Len(V) = Len(c) + 1 + Len(W) /\ \A i \in 1..Len(W) : V[Len(c) + 1 + i] = W[i]
  <2>1. c \in Contents("multipart")
    BY <1>2
  <2>2. c \in Seq(Tok)
    BY <2>1, ContentIsText
  <2> QED BY <1>1, <2>2 DEF Field
<1>3. /\ next \in Nat /\ next >= at /\ HasDelimiter(buf, next)
      /\ \A i \in Nat : i >= at /\ HasDelimiter(buf, i) => next <= i
  BY <1>a, <1>l, Search
<1>4. next + 2 <= Len(buf) /\ buf[next] = "r" /\ buf[next + 1] = "e" /\ buf[next + 2] = "f"
  BY <1>3 DEF HasDelimiter
<1>n. /\ o \in Int /\ o + at >= 1 /\ o + Len(buf) <= Len(V) /\ next \in Nat /\ next >= at /\ next + 2 <= Len(buf)
      /\ Len(buf) \in Nat /\ at \in Nat /\ Len(c) \in Nat /\ o + at - 1 <= Len(c) /\ Len(V) \in Nat
  <2>1. Len(V) \in Nat
    BY <1>1 DEF Stream
  <2> HIDE DEF c
  <2> QED BY <2>1, <1>a, <1>c, <1>l, <1>3, <1>4
<1>5. o + next >= Len(c) + 1
  <2>1. next \in at..Len(buf) /\ next + 1 \in at..Len(buf) /\ next + 2 \in at..Len(buf)
    BY <1>3, <1>4, <1>l
  <2>2. /\ o + (next + 1) = (o + next) + 1 /\ o + (next + 2) = (o + next) + 2
        /\ o + next \in Nat \ {0} /\ o + next + 2 <= Len(V)
    <3> HIDE DEF c
    <3> QED BY <1>n
  <2>3. V[o + next] = "r" /\ V[o + next + 1] = "e" /\ V[o + next + 2] = "f"
    <3> HIDE DEF c
    <3> QED BY <2>1, <2>2, <1>4, <1>a
  <2> QED BY <2>2, <2>3, <1>1, Boundary
<1> DEFINE v == Len(c) + 1
           i == v - o
<1>6. i \in Nat /\ i >= at /\ i <= next /\ o + i = v /\ o + (i + 1) = v + 1 /\ o + (i + 2) = v + 2
      /\ v \in Nat \ {0} /\ v + 2 <= Len(V) /\ i + 2 <= Len(buf)
  <2> HIDE DEF c
  <2> QED BY <1>5, <1>n
<1>7. V[v] = "r" /\ V[v + 1] = "e" /\ V[v + 2] = "f"
  BY <1>6, <1>1, Boundary
<1>8. HasDelimiter(buf, i)
  <2> HIDE DEF c, i, v
  <2>1. i \in at..Len(buf) /\ i + 1 \in at..Len(buf) /\ i + 2 \in at..Len(buf)
    BY <1>6, <1>l
  <2> QED BY <2>1, <1>6, <1>7, <1>a DEF HasDelimiter
<1>9. next = i
  <2> HIDE DEF i
  <2> QED BY <1>3, <1>6, <1>8
<1>10. o + next = Len(c) + 1 /\ o + next - 1 = Len(c) /\ next \in at..(Len(buf) + 1) /\ next + 1 \in at..(Len(buf) + 1)
  <2> HIDE DEF c
  <2> QED BY <1>3, <1>4, <1>9, <1>a, <1>c, <1>l
<1> HIDE DEF c, i, v
<1>11. take => got \o SubSeq(buf, at, next - 1) = c
  <2>1. ASSUME take PROVE Received(got \o SubSeq(buf, at, next - 1), c, o + next - 1)
    <3>1. Received(got, c, o + at - 1) /\ Field("multipart", c, V, W)
      BY <2>1, <1>1 DEF c
    <3>2. o + next - 1 <= Len(c)
      BY <1>10, <1>c
    <3> QED BY <3>1, <3>2, <1>1, <1>10, Advance
  <2> QED BY <2>1, <1>10, <1>c, ReceivedAll
<1>12. Stream("multipart", SubSeq(buf, next + 1, Len(buf)), body, 1, W, 0)
  <2> DEFINE b == SubSeq(buf, next + 1, Len(buf))
  <2>1. Stream("multipart", b, body, 1, V, o + (next + 1) - 1)
    BY <1>1, <1>10, StreamDrop
  <2> HIDE DEF b
  <2>2. o + (next + 1) - 1 = Len(c) + 1 /\ Len(c) + 1 \in Nat
    <3>1. o \in Int /\ next \in Int /\ Len(c) \in Nat /\ o + next = Len(c) + 1
      BY <1>10, <1>n
    <3> QED BY ONLY <3>1
  <2>3. Stream("multipart", b, body, 1, V, Len(c) + 1)
    BY <2>1, <2>2
  <2>4. (Len(c) + 1) - (Len(c) + 1) = 0 /\ (Len(c) + 1) - (Len(c) + 1) + 1 >= 1
    BY <1>c
  <2>5. Stream("multipart", b, body, 1, W, (Len(c) + 1) - (Len(c) + 1))
    BY <2>2, <2>3, <2>4, <1>c, StreamInto
  <2> QED BY <2>4, <2>5 DEF b
<1>13. Tail(fields) \in Seq(Contents("multipart"))
  BY <1>2, HeadTailProperties
<1> QED BY <1>1, <1>11, <1>12, <1>13 DEF AtField, c, LastSplit

\* Url-encoded: the first "=" is the one of the first field.
LEMMA KeyAtField ==
    ASSUME NEW fields, NEW buf, NEW body, AtField("url", fields, buf, body),
           NEW e \in DOMAIN buf, buf[e] = "=", \A i \in DOMAIN buf : buf[i] = "=" => e <= i
    PROVE  InField("url", fields, buf, body, e + 1, <<>>, TRUE)
<1>1. PICK B : BodyOf("url", fields, B) /\ Stream("url", buf, body, 1, B, 0)
  BY DEF AtField
<1>2. fields \in Seq(Contents("url"))
  BY DEF AtField
<1>a. /\ buf \in Seq(Tok) /\ Len(buf) <= Len(B) /\ \A i \in 1..Len(buf) : buf[i] = B[i]
  <2>1. /\ buf \in Seq(Tok) /\ body \in Seq(Tok) /\ 0 + Len(buf) + Len(body) <= Len(B)
        /\ \A i \in 1..Len(buf) : buf[i] = B[0 + i]
    BY <1>1 DEF Stream
  <2>2. Len(buf) \in Nat /\ Len(body) \in Nat /\ Len(B) \in Nat
    BY <2>1, <1>1 DEF Stream
  <2>3. \A i \in 1..Len(buf) : 0 + i = i
    OBVIOUS
  <2> QED BY <2>1, <2>2, <2>3
<1>e. e \in 1..Len(buf) /\ DOMAIN buf = 1..Len(buf) /\ Len(buf) \in Nat
  BY <1>a
<1>3. fields # <<>>
  <2>1. fields = <<>> => Len(B) = 0
    BY <1>1, <1>2, BodyStarts
  <2> QED BY <2>1, <1>a, <1>e
<1>4. HasOpening("url", fields, B)
  BY <1>1, <1>2, <1>3, BodyOpens
<1>5. PICK V, W : Field("url", fields[1], V, W) /\ BodyOf("url", Tail(fields), W) /\ B = Opening("url") \o V
  BY <1>4 DEF HasOpening
<1>6. B[1] = "k" /\ Len(B) >= 2 /\ B[2] = "=" /\ Len(Opening("url")) = 2
  <2> DEFINE x == Opening("url")
  <2>1. x \in Seq(Tok) /\ V \in Seq(Tok) /\ Len(x) = 2 /\ x[1] = "k" /\ x[2] = "="
    BY <1>5, OpeningIsText DEF Field
  <2> HIDE DEF x
  <2>2. /\ Len(x \o V) = Len(x) + Len(V) /\ Len(V) \in Nat
        /\ \A i \in 1..Len(x) + Len(V) : (x \o V)[i] = IF i <= Len(x) THEN x[i] ELSE V[i - Len(x)]
    <3>1. /\ Len(x \o V) = Len(x) + Len(V)
          /\ \A i \in 1..Len(x) + Len(V) : (x \o V)[i] = IF i <= Len(x) THEN x[i] ELSE V[i - Len(x)]
      BY ONLY <2>1, ConcatProperties
    <3>2. Len(V) \in Nat
      BY ONLY <2>1
    <3> QED BY <3>1, <3>2
  <2>3. 1 \in 1..Len(x) + Len(V) /\ 2 \in 1..Len(x) + Len(V) /\ 1 <= Len(x) /\ 2 <= Len(x)
    BY <2>1, <2>2
  <2>4. (x \o V)[1] = x[1] /\ (x \o V)[2] = x[2] /\ Len(x \o V) >= 2
    BY <2>1, <2>2, <2>3
  <2> QED BY <2>1, <2>4, <1>5 DEF x
<1>7. e = 2
  <2>1. e # 1
    <3>1. 1 \in 1..Len(buf)
      BY <1>e
    <3>2. buf[1] = "k"
      BY <3>1, <1>a, <1>6
    <3> QED BY <3>2
  <2>2. 2 \in 1..Len(buf)
    BY <2>1, <1>e
  <2>3. e <= 2
    BY <2>2, <1>a, <1>e, <1>6
  <2> QED BY <2>1, <2>3, <1>e
<1>8. e + 1 = 3 /\ e + 1 <= Len(buf) + 1
  BY <1>7, <1>e
<1> QED BY <1>3, <1>8, FieldBegins

\* The first "&" is the end of the content.
LEMMA Ampersand ==
    ASSUME NEW c, NEW V, NEW W, Field("url", c, V, W), NEW v \in 1..Len(V)
    PROVE  /\ V[v] = "&" => v >= Len(c) + 1 /\ Len(V) = Len(c) + 1 + Len(W)
           /\ v = Len(c) + 1 => V[v] = "&"
<1>1. c \in Seq({"d"}) /\ W \in Seq(Tok) /\ V \in Seq(Tok)
  BY DEF Field, Contents, ContentTok
<1>2. Len(c) \in Nat /\ Len(W) \in Nat /\ Len(V) \in Nat /\ \A i \in 1..Len(c) : c[i] = "d"
  BY <1>1
<1>3. \A i \in 1..Len(c) : V[i] = "d"
  BY <1>2 DEF Field
<1>4. V[v] = "&" => v >= Len(c) + 1
  BY <1>2, <1>3
<1>5. \/ Len(V) = Len(c) + 1 + Len(W) /\ V[Len(c) + 1] = "&"
      \/ Len(V) = Len(c)
  BY DEF Field, Mark
<1> QED BY <1>2, <1>4, <1>5

\* The buffer is divided at the "&".
EndSplit(fields, buf, body, at, got, take, next) ==
    /\ AtField("url", Tail(fields), SubSeq(buf, next + 1, Len(buf)), body)
    /\ take = TRUE => got \o SubSeq(buf, at, next - 1) = fields[1]

\* The last block of a url-encoded content ends at the "&".
LEMMA EndsInField ==
    ASSUME NEW fields, NEW buf, NEW body, NEW at, NEW got, NEW take,
           InField("url", fields, buf, body, at, got, take),
           NEW next \in at..Len(buf), buf[next] = "&", \A i \in at..Len(buf) : buf[i] = "&" => next <= i
    PROVE  EndSplit(fields, buf, body, at, got, take, next)
<1>1. PICK V, W, o : /\ Field("url", fields[1], V, W) /\ BodyOf("url", Tail(fields), W)
                     /\ Stream("url", buf, body, at, V, o) /\ o + at - 1 <= Len(fields[1])
                     /\ take => Received(got, fields[1], o + at - 1)
  BY DEF InField
<1>2. fields \in Seq(Contents("url")) /\ fields # <<>>
  BY DEF InField
<1> DEFINE c == fields[1]
<1>a. /\ buf \in Seq(Tok) /\ o \in Int /\ at \in 1..(Len(buf) + 1) /\ o + at >= 1 /\ Len(V) \in Nat
      /\ o + Len(buf) <= Len(V) /\ \A i \in at..Len(buf) : buf[i] = V[o + i]
  BY <1>1 DEF Stream
<1>c. c \in Seq(Tok) /\ W \in Seq(Tok) /\ Len(c) \in Nat
  <2>1. c \in Contents("url")
    BY <1>2
  <2>2. c \in Seq(Tok)
    BY <2>1, ContentIsText
  <2> QED BY <1>1, <2>2 DEF Field
<1>n. /\ o \in Int /\ o + at >= 1 /\ o + Len(buf) <= Len(V) /\ next \in Nat /\ next >= at /\ next <= Len(buf)
      /\ Len(buf) \in Nat /\ at \in Nat /\ Len(c) \in Nat /\ o + at - 1 <= Len(c) /\ Len(V) \in Nat
  <2> HIDE DEF c
  <2> QED BY <1>1, <1>a, <1>c DEF c
<1>3. V[o + next] = "&" /\ o + next \in 1..Len(V)
  <2>1. o + next \in 1..Len(V)
    <3> HIDE DEF c
    <3> QED BY <1>n
  <2> QED BY <2>1, <1>a
<1>4. o + next >= Len(c) + 1 /\ Len(V) = Len(c) + 1 + Len(W)
  BY <1>1, <1>3, Ampersand
<1>5. \A i \in 1..Len(W) : V[Len(c) + 1 + i] = W[i]
  <2>1. Len(V) # Len(c)
    <3>1. Len(W) \in Nat
      BY <1>c
    <3> HIDE DEF c
    <3> QED BY <1>4, <1>n, <3>1
  <2> QED BY <2>1, <1>1 DEF Field
<1> DEFINE i == Len(c) + 1 - o
<1>6. i \in at..Len(buf) /\ i <= next /\ o + i = Len(c) + 1 /\ Len(c) + 1 \in 1..Len(V)
  <2>1. Len(W) \in Nat
    BY <1>c
  <2> HIDE DEF c
  <2> QED BY <1>4, <1>n, <2>1
<1>7. V[Len(c) + 1] = "&"
  BY <1>1, <1>6, Ampersand
<1>8. next = i
  <2> HIDE DEF i, c
  <2>1. next <= i
    BY <1>6, <1>7, <1>a
  <2> QED BY <2>1, <1>6, <1>n
<1>10. o + next = Len(c) + 1 /\ o + next - 1 = Len(c) /\ next \in at..(Len(buf) + 1) /\ next + 1 \in at..(Len(buf) + 1)
  <2> HIDE DEF c
  <2> QED BY <1>8, <1>n
<1> HIDE DEF c, i
<1>11. take => got \o SubSeq(buf, at, next - 1) = c
  <2>1. ASSUME take PROVE Received(got \o SubSeq(buf, at, next - 1), c, o + next - 1)
    <3>1. Received(got, c, o + at - 1) /\ Field("url", c, V, W)
      BY <2>1, <1>1 DEF c
    <3>2. o + next - 1 <= Len(c)
      BY <1>10, <1>c
    <3> QED BY <3>1, <3>2, <1>1, <1>10, Advance
  <2> QED BY <2>1, <1>10, <1>c, ReceivedAll
<1>12. Stream("url", SubSeq(buf, next + 1, Len(buf)), body, 1, W, 0)
  <2> DEFINE b == SubSeq(buf, next + 1, Len(buf))
  <2>1. Stream("url", b, body, 1, V, o + (next + 1) - 1)
    BY <1>1, <1>10, StreamDrop
  <2> HIDE DEF b
  <2>2. o + (next + 1) - 1 = Len(c) + 1 /\ Len(c) + 1 \in Nat
    <3>1. o \in Int /\ next \in Int /\ Len(c) \in Nat /\ o + next = Len(c) + 1
      BY <1>10, <1>n
    <3> QED BY ONLY <3>1
  <2>3. Stream("url", b, body, 1, V, Len(c) + 1)
    BY <2>1, <2>2
  <2>4. (Len(c) + 1) - (Len(c) + 1) = 0 /\ (Len(c) + 1) - (Len(c) + 1) + 1 >= 1
    BY <1>c
  <2>5. Stream("url", b, body, 1, W, (Len(c) + 1) - (Len(c) + 1))
    BY <2>2, <2>3, <2>4, <1>c, <1>4, <1>5, StreamInto
  <2> QED BY <2>4, <2>5 DEF b
<1>13. Tail(fields) \in Seq(Contents("url"))
  BY <1>2, HeadTailProperties
<1> QED BY <1>1, <1>11, <1>12, <1>13 DEF AtField, c, EndSplit

\* What there is of the content is passed on and more is read; when nothing more comes, the
\* content ended.
WholeRead(fields, buf, body, at, got, take) ==
    /\ InField("url", fields, <<>>, body, 1, got \o SubSeq(buf, at, Len(buf)), take)
    /\ Len(body) = 0 => /\ AtField("url", Tail(fields), <<>>, <<>>)
                        /\ take = TRUE => got \o SubSeq(buf, at, Len(buf)) = fields[1]

\* A url-encoded content that fills the buffer and goes on, or ends with the body.
LEMMA WholeInField ==
    ASSUME NEW fields, NEW buf, NEW body, NEW at, NEW got, NEW take,
           InField("url", fields, buf, body, at, got, take), \A i \in at..Len(buf) : buf[i] # "&"
    PROVE  WholeRead(fields, buf, body, at, got, take)
<1>1. PICK V, W, o : /\ Field("url", fields[1], V, W) /\ BodyOf("url", Tail(fields), W)
                     /\ Stream("url", buf, body, at, V, o) /\ o + at - 1 <= Len(fields[1])
                     /\ take => Received(got, fields[1], o + at - 1)
  BY DEF InField
<1>2. fields \in Seq(Contents("url")) /\ fields # <<>>
  BY DEF InField
<1> DEFINE c == fields[1]
           a == Len(buf) + 1
<1>a. /\ buf \in Seq(Tok) /\ o \in Int /\ at \in 1..(Len(buf) + 1) /\ o + at >= 1 /\ Len(V) \in Nat /\ Len(body) \in Nat
      /\ o + Len(buf) + Len(body) = Len(V) /\ \A i \in at..Len(buf) : buf[i] = V[o + i]
  BY <1>1 DEF Stream
<1>c. c \in Seq(Tok) /\ W \in Seq(Tok) /\ Len(c) \in Nat /\ Len(W) \in Nat
  <2>1. c \in Contents("url")
    BY <1>2
  <2>2. c \in Seq(Tok)
    BY <2>1, ContentIsText
  <2> QED BY <1>1, <2>2 DEF Field
<1>n. /\ o \in Int /\ o + at >= 1 /\ o + Len(buf) + Len(body) = Len(V) /\ Len(body) \in Nat
      /\ Len(buf) \in Nat /\ at \in Nat /\ at <= Len(buf) + 1 /\ Len(c) \in Nat /\ o + at - 1 <= Len(c) /\ Len(V) \in Nat /\ Len(W) \in Nat
  <2> HIDE DEF c
  <2> QED BY <1>1, <1>a, <1>c DEF c
<1>3. o + Len(buf) <= Len(c)
  <2>1. SUFFICES ASSUME o + Len(buf) >= Len(c) + 1 PROVE FALSE
    <3> HIDE DEF c
    <3> QED BY <1>n
  <2> DEFINE i == Len(c) + 1 - o
  <2>2. i \in at..Len(buf) /\ o + i = Len(c) + 1 /\ Len(c) + 1 \in 1..Len(V)
    <3> HIDE DEF c
    <3> QED BY <2>1, <1>n
  <2>3. V[Len(c) + 1] = "&"
    BY <1>1, <2>2, Ampersand
  <2> HIDE DEF c, i
  <2>4. buf[i] = "&"
    BY <2>2, <2>3, <1>a
  <2> QED BY <2>2, <2>4
<1>4. a \in at..(Len(buf) + 1) /\ a - 1 = Len(buf) /\ o + a - 1 = o + Len(buf) /\ SubSeq(buf, a, Len(buf)) = <<>>
  <2>1. a \in Int /\ Len(buf) \in Int /\ Len(buf) < a
    <3> HIDE DEF c
    <3> QED BY <1>n
  <2>2. SubSeq(buf, a, Len(buf)) = <<>>
    BY <2>1, SubSeqEmpty
  <2> HIDE DEF c
  <2> QED BY <2>2, <1>n
<1> HIDE DEF a
<1>5. Stream("url", <<>>, body, 1, V, o + Len(buf))
  <2>1. Stream("url", SubSeq(buf, a, Len(buf)), body, 1, V, o + a - 1)
    BY <1>1, <1>4, StreamDrop
  <2> QED BY <2>1, <1>4
<1>6. take => Received(got \o SubSeq(buf, at, Len(buf)), c, o + Len(buf))
  <2>1. ASSUME take PROVE Received(got \o SubSeq(buf, at, a - 1), c, o + a - 1)
    BY <2>1, <1>1, <1>3, <1>4, Advance
  <2> QED BY <2>1, <1>4
<1>7. InField("url", fields, <<>>, body, 1, got \o SubSeq(buf, at, Len(buf)), take)
  <2>1. o + Len(buf) + 1 - 1 = o + Len(buf)
    <3> HIDE DEF c
    <3> QED BY <1>n
  <2> QED BY <2>1, <1>1, <1>2, <1>3, <1>5, <1>6 DEF InField
<1>8. ASSUME Len(body) = 0
      PROVE  /\ AtField("url", Tail(fields), <<>>, <<>>)
             /\ take => got \o SubSeq(buf, at, Len(buf)) = fields[1]
  <2>1. Len(V) = o + Len(buf) /\ Len(V) = Len(c) /\ Len(W) = 0
    <3>1. Len(V) = o + Len(buf)
      <4> HIDE DEF c
      <4> QED BY <1>8, <1>n
    <3>2. \/ Len(V) = Len(c) + 1 + Len(W)
          \/ Len(V) = Len(c) /\ Len(W) = 0
      BY <1>1 DEF Field
    <3> HIDE DEF c
    <3> QED BY <3>1, <3>2, <1>3, <1>n
  <2>2. W = <<>> /\ <<>> \in Seq(Tok) /\ Len(<<>>) = 0
    BY <2>1, <1>c
  <2>3. Stream("url", <<>>, <<>>, 1, W, 0)
    BY <2>2, FormAssumption DEF Stream
  <2>4. Tail(fields) \in Seq(Contents("url"))
    BY <1>2, HeadTailProperties
  <2>5. take => got \o SubSeq(buf, at, Len(buf)) = c
    BY <2>1, <1>6, <1>c, ReceivedAll
  <2> QED BY <2>3, <2>4, <2>5, <1>1 DEF AtField
<1> QED BY <1>7, <1>8 DEF WholeRead

-----------------------------------------------------------------------------
\* What field_get or the file receives is looked at: it has been passed all blocks so far.
Taking == formStore = "get" \/ (formStore = "store" /\ formFile = "open")

\* Nobody asked to abort, and a url-encoded body is complete.
Follows == formAbort = 0 /\ (formKind = "multipart" \/ ~formCut)

\* Where in the body the function is.
FormAhead ==
    /\ formPc \in {"part", "url"} => AtField(formKind, formFields, formBuf, formBody)
    /\ formPc = "found" => InField(formKind, formFields, formBuf, formBody, formAt, <<>>, TRUE)
    /\ formPc \in {"scan", "last", "value"} =>
          InField(formKind, formFields, formBuf, formBody, formAt, formGot, Taking)
    /\ formPc = "scan" => search_boundary(formBuf, formAt) = 0
    /\ formPc = "last" => search_boundary(formBuf, formAt) # 0
    /\ formPc = "closing" => formFields # <<>> /\ AtField(formKind, Tail(formFields), formBuf, formBody)

\* The inductive invariant: unless somebody asked to abort or the body was cut off, the buffer
\* and what is still to be read are the body from the place on where the function is.
FormInv ==
    /\ formKind \in {"multipart", "url"}
    /\ formPc \in {"part", "scan", "last"} => formKind = "multipart"
    /\ formPc \in {"url", "value"} => formKind = "url"
    /\ formPc = "idle" => formBuf = <<>> /\ formDone[1] = formDone[2]
    /\ FieldExact
    /\ Follows => FormAhead

\* field_get gets the block, or the file; the place is then behind it.
LEMMA Delivers ==
    ASSUME NEW block, Deliver(block), formAbort' = 0,
           NEW k, NEW f, NEW b, NEW m, NEW at, formAbort = 0 => InField(k, f, b, m, at, formGot \o block, Taking)
    PROVE  formAbort = 0 /\ InField(k, f, b, m, at, formGot', Taking')
<1>1. formAbort = 0 /\ (Taking' => Taking /\ formGot' = formGot \o block)
  BY DEF Deliver, Taking
<1>2. InField(k, f, b, m, at, formGot \o block, Taking)
  BY <1>1
<1>3. PICK V, W, o : /\ Field(k, f[1], V, W) /\ BodyOf(k, Tail(f), W)
                     /\ Stream(k, b, m, at, V, o) /\ o + at - 1 <= Len(f[1])
                     /\ Taking => Received(formGot \o block, f[1], o + at - 1)
  BY <1>2 DEF InField
<1>4. f \in Seq(Contents(k)) /\ f # <<>>
  BY <1>2 DEF InField
<1>5. Taking' => Received(formGot', f[1], o + at - 1)
  BY <1>1, <1>3
<1> DEFINE t == Taking'
           g == formGot'
<1>6. InField(k, f, b, m, at, g, t)
  <2>1. t => Received(g, f[1], o + at - 1)
    BY <1>5
  <2> HIDE DEF t, g
  <2> QED BY <2>1, <1>3, <1>4 DEF InField
<1> QED BY <1>1, <1>6

\* Behind a delimiter that is followed by part headers there is a field.
LEMMA NoField ==
    ASSUME NEW kind, NEW fields, NEW buf, NEW body, AtField(kind, fields, buf, body),
           kind = "multipart", Len(buf) >= 3, buf[3] = "H"
    PROVE  fields # <<>>
<1>1. PICK W : BodyOf(kind, fields, W) /\ Stream(kind, buf, body, 1, W, 0)
  BY DEF AtField
<1>2. fields = <<>> => W[3] = "z"
  BY <1>1, BodyStarts DEF AtField
<1>3. buf[3] = W[0 + 3]
  <2>1. Len(buf) \in Nat /\ \A i \in 1..Len(buf) : buf[i] = W[0 + i]
    BY <1>1 DEF Stream
  <2>2. 3 \in 1..Len(buf)
    BY <2>1
  <2> QED BY <2>1, <2>2
<1> QED BY <1>2, <1>3

\* What a client sends.
LEMMA SentContents ==
    ASSUME NEW fields \in FormContents, NEW kind \in {"multipart", "url"}, NEW sent,
           sent = IF kind = "url" THEN [i \in DOMAIN fields |-> [j \in DOMAIN fields[i] |-> "d"]] ELSE fields
    PROVE  sent \in Seq(Contents(kind))
<1>1. fields \in Seq(Seq({"d", "r"}))
  BY FormAssumption
<1>2. CASE kind = "multipart"
  BY <1>1, <1>2 DEF Contents, ContentTok
<1>3. CASE kind = "url"
  <2> DEFINE x(i) == [j \in DOMAIN fields[i] |-> "d"]
  <2>1. ASSUME NEW i \in DOMAIN fields PROVE x(i) \in Seq({"d"})
    <3>1. fields[i] \in Seq({"d", "r"})
      BY <1>1
    <3>2. DOMAIN fields[i] = 1..Len(fields[i]) /\ Len(fields[i]) \in Nat
      BY <3>1
    <3>3. x(i) \in [1..Len(fields[i]) -> {"d"}]
      BY <3>2
    <3> QED BY <3>2, <3>3
  <2>2. sent = [i \in DOMAIN fields |-> x(i)] /\ DOMAIN fields = 1..Len(fields) /\ Len(fields) \in Nat
    BY <1>1, <1>3
  <2> HIDE DEF x
  <2>3. sent \in [1..Len(fields) -> Seq({"d"})]
    BY <2>1, <2>2
  <2>4. sent \in Seq(Seq({"d"}))
    BY <2>2, <2>3
  <2> QED BY <2>4, <1>3 DEF Contents, ContentTok
<1> QED BY <1>2, <1>3

\* The first piece of the body is read.
LEMMA FormStarts == FormInv /\ FormStart => FormInv'
<1> SUFFICES ASSUME FormInv, FormStart PROVE FormInv'
  OBVIOUS
<1>1. PICK fields \in FormContents, kind \in {"multipart", "url"} :
        LET sent == IF kind = "url"
                    THEN [i \in DOMAIN fields |-> [j \in DOMAIN fields[i] |-> "d"]] ELSE fields
            whole == SentBody(kind, sent)
        IN \E len \in 1..Len(whole):
             /\ formKind' = kind /\ formFields' = sent
             /\ formBody' = SubSeq(whole, 1, len) /\ formCut' = (len < Len(whole))
             /\ formPc' = IF kind = "url" THEN "url" ELSE "part"
  BY DEF FormStart
<1> DEFINE sent == IF kind = "url"
                   THEN [i \in DOMAIN fields |-> [j \in DOMAIN fields[i] |-> "d"]] ELSE fields
           whole == SentBody(kind, sent)
<1>2. PICK len \in 1..Len(whole) :
             /\ formKind' = kind /\ formFields' = sent
             /\ formBody' = SubSeq(whole, 1, len) /\ formCut' = (len < Len(whole))
             /\ formPc' = IF kind = "url" THEN "url" ELSE "part"
  BY <1>1
<1>3. sent \in Seq(Contents(kind))
  BY SentContents
<1> HIDE DEF sent
<1>4. BodyOf(kind, sent, whole) /\ whole \in Seq(Tok)
  BY <1>3, BodyIsSent, BodyStarts
<1> HIDE DEF whole
<1>5. formBuf = <<>> /\ formDone[1] = formDone[2] /\ formBuf' = <<>> /\ formDone' = formDone /\ formAbort' = formAbort
  BY DEF FormStart, FormInv
<1> DEFINE b == SubSeq(whole, 1, len)
<1>6. b \in Seq(Tok) /\ Len(b) = len /\ \A i \in 1..len : b[i] = whole[i]
  <2>1. \A i \in 1..len : whole[i] \in Tok
    BY <1>4
  <2> QED BY <2>1, <1>4, SubSeqProperties
<1> HIDE DEF b
<1>7. ASSUME kind = "multipart" \/ ~(len < Len(whole)) PROVE AtField(kind, sent, <<>>, b)
  <2>1. <<>> \in Seq(Tok) /\ Len(<<>>) = 0 /\ Len(<<>>) <= FormBuffer /\ Len(whole) \in Nat
    BY <1>4, FormAssumption
  <2>2. kind = "url" => 0 + Len(<<>>) + Len(b) = Len(whole)
    BY <2>1, <1>6, <1>7
  <2>3. 0 + Len(<<>>) + Len(b) <= Len(whole) /\ \A i \in 1..Len(b) : b[i] = whole[0 + Len(<<>>) + i]
    BY <2>1, <1>6
  <2>4. Stream(kind, <<>>, b, 1, whole, 0)
    BY <2>1, <2>2, <2>3, <1>4, <1>6 DEF Stream
  <2> QED BY <2>4, <1>3, <1>4 DEF AtField
<1>8. Follows' => AtField(kind, sent, <<>>, b)
  BY <1>2, <1>7 DEF Follows
<1>9. AtField(formKind, formFields, formBuf, formBody)' <=> AtField(kind, sent, <<>>, b)
  BY <1>2, <1>5 DEF b
<1> QED BY <1>2, <1>5, <1>8, <1>9 DEF FormInv, FormAhead, FieldExact

\* The delimiter before a part and its headers are looked at.
LEMMA PartBegins == FormInv /\ PartBegin => FormInv'
<1> SUFFICES ASSUME FormInv, PartBegin PROVE FormInv'
  OBVIOUS
<1>1. /\ formPc = "part" /\ formKind = "multipart" /\ formPc' \in {"found", "returned"}
      /\ formKind' = formKind /\ formFields' = formFields /\ formCut' = formCut
      /\ formDone' = formDone /\ formAbort' = formAbort
      /\ formBuf' = Filled(formBuf) /\ formBody' = Consumed(formBuf)
  BY DEF FormInv, PartBegin, Returns
<1>2. ASSUME Follows', formPc' = "found"
      PROVE  InField("multipart", formFields, Filled(formBuf), Consumed(formBuf), formAt', <<>>, TRUE)
  <2>1. AtField("multipart", formFields, formBuf, formBody)
    BY <1>1, <1>2 DEF FormInv, FormAhead, Follows
  <2>2. AtField("multipart", formFields, Filled(formBuf), Consumed(formBuf))
    BY <2>1, AtFieldFill
  <2>3. ~PartMalformed(Filled(formBuf)) /\ Filled(formBuf)[3] # "z" /\ formAt' = 4
    BY <1>1, <1>2 DEF PartBegin, Returns
  <2>4. Len(Filled(formBuf)) >= 3 /\ Filled(formBuf)[3] = "H"
    <3>1. Filled(formBuf) \in Seq(Tok)
      BY <2>2 DEF AtField, Stream
    <3>2. Len(Filled(formBuf)) \in Nat
      BY <3>1
    <3> QED BY <2>3, <3>2 DEF PartMalformed
  <2>5. formFields # <<>>
    BY <2>2, <2>4, NoField
  <2>6. formAt' = 4 /\ formAt' <= Len(Filled(formBuf)) + 1
    <3>2. Filled(formBuf) \in Seq(Tok)
      BY <2>2 DEF AtField, Stream
    <3>3. Len(Filled(formBuf)) \in Nat
      BY <3>2
    <3>4. 4 <= Len(Filled(formBuf)) + 1
      BY ONLY <2>4, <3>3
    <3> QED BY <2>3, <3>4
  <2> QED BY <2>2, <2>5, <2>6, FieldBegins
<1>3. Follows' => FormAhead'
  BY <1>1, <1>2 DEF FormAhead
<1>4. FieldExact'
  BY <1>1 DEF FormInv, FieldExact
<1> QED BY <1>1, <1>3, <1>4 DEF FormInv

\* field_found says what to do with the field; nothing of it has been received yet.
LEMMA FieldIsFound == FormInv /\ FieldFound => FormInv'
<1> SUFFICES ASSUME FormInv, FieldFound PROVE FormInv'
  OBVIOUS
<1>1. /\ formPc = "found" /\ formPc' \in {"scan", "last", "value", "returned"}
      /\ formPc' \in {"scan", "last"} => formKind = "multipart"
      /\ formPc' = "value" => formKind = "url"
      /\ formPc' = "scan" => search_boundary(formBuf, formAt) = 0
      /\ formPc' = "last" => search_boundary(formBuf, formAt) # 0
      /\ formKind' = formKind /\ formFields' = formFields /\ formCut' = formCut /\ formGot' = <<>>
      /\ formDone' = formDone /\ formAbort' = formAbort /\ formBuf' = formBuf /\ formBody' = formBody
      /\ formAt' = formAt /\ formKind \in {"multipart", "url"}
  BY DEF FormInv, FieldFound
<1>2. ASSUME Follows' PROVE InField(formKind, formFields, formBuf, formBody, formAt, <<>>, Taking')
  <2>1. InField(formKind, formFields, formBuf, formBody, formAt, <<>>, TRUE)
    BY <1>1, <1>2 DEF FormInv, FormAhead, Follows
  <2> QED BY <2>1 DEF InField
<1>3. (search_boundary(formBuf, formAt))' = search_boundary(formBuf, formAt)
  BY <1>1 DEF search_boundary
<1>4. Follows' => FormAhead'
  BY <1>1, <1>2, <1>3 DEF FormAhead
<1>5. FieldExact'
  BY <1>1 DEF FormInv, FieldExact
<1> QED BY <1>1, <1>4, <1>5 DEF FormInv

\* A block of a part that is longer than the buffer.
LEMMA PartBlocks == FormInv /\ PartBlock => FormInv'
<1> SUFFICES ASSUME FormInv, PartBlock PROVE FormInv'
  OBVIOUS
<1> DEFINE tail == KeptTail(formBuf)
           block == SubSeq(formBuf, formAt, Len(formBuf) - Len(tail))
           more == Filled(tail)
<1>1. /\ formPc = "scan" /\ formKind = "multipart" /\ Len(formBuf) - formAt + 1 >= DelimiterLen
      /\ formDone' = formDone
  BY DEF FormInv, PartBlock
<1>2. FieldExact' /\ formKind' = formKind /\ formCut' = formCut /\ formPc' \in {"scan", "last", "returned"}
  <2>1. formKind' = formKind /\ formCut' = formCut /\ formPc' \in {"scan", "last", "returned"}
    BY DEF PartBlock, Returns
  <2> QED BY <1>1, <2>1 DEF FormInv, FieldExact
<1>3. CASE Deliver(block) /\ AskedToAbort
  <2>1. ~Follows'
    BY <1>3 DEF Follows, AskedToAbort
  <2> QED BY <1>1, <1>2, <2>1 DEF FormInv
<1>4. CASE /\ Deliver(block) /\ ~AskedToAbort
           /\ formBuf' = more /\ formAt' = 1 /\ formBody' = Consumed(tail)
           /\ formPc' = IF search_boundary(more, 1) = 0 THEN "scan" ELSE "last"
           /\ UNCHANGED <<formKind, formFields, formCut>>
  <2>1. ASSUME Follows' PROVE InField("multipart", formFields, more, Consumed(tail), 1, formGot', Taking')
    <3>1. ASSUME formAbort = 0 PROVE InField("multipart", formFields, more, Consumed(tail), 1, formGot \o block, Taking)
      <4>1. InField("multipart", formFields, formBuf, formBody, formAt, formGot, Taking) /\ search_boundary(formBuf, formAt) = 0
        BY <1>1, <3>1 DEF FormInv, FormAhead, Follows
      <4>2. InField("multipart", formFields, tail, formBody, 1, formGot \o block, Taking)
        BY <4>1, <1>1, BlockInField
      <4> HIDE DEF tail, block
      <4> QED BY <4>2, InFieldFill
    <3>2. formAbort' = 0 /\ Deliver(block)
      BY <2>1, <1>4 DEF Follows
    <3> HIDE DEF tail, block, more
    <3> QED BY <3>1, <3>2, Delivers
  <2>2. (search_boundary(formBuf, formAt))' = search_boundary(more, 1)
    BY <1>4 DEF search_boundary
  <2>3. Follows' => FormAhead'
    <3> HIDE DEF tail, block, more
    <3> QED BY <1>1, <1>4, <2>1, <2>2 DEF FormAhead
  <2>4. formPc' \in {"scan", "last"}
    BY <1>4
  <2> QED BY <1>1, <1>2, <2>3, <2>4 DEF FormInv
<1>5. CASE formPc' = "returned"
  <2>1. FormAhead'
    BY <1>5 DEF FormAhead
  <2> QED BY <1>1, <1>2, <1>5, <2>1 DEF FormInv
<1> QED BY <1>3, <1>4, <1>5 DEF PartBlock, Returns

\* The last block of a part: what field_get or the file received is then the field's content.
LEMMA PartLasts == FormInv /\ PartLast => FormInv'
<1> SUFFICES ASSUME FormInv, PartLast PROVE FormInv'
  OBVIOUS
<1> DEFINE next == search_boundary(formBuf, formAt)
           block == IF next = 0 THEN <<>> ELSE SubSeq(formBuf, formAt, next - 1)
<1>1. /\ formPc = "last" /\ formKind = "multipart" /\ Deliver(block)
      /\ formKind' = formKind /\ formCut' = formCut /\ formFields' = formFields /\ formBody' = formBody
      /\ formPc' \in {"closing", "returned"}
      /\ formBuf' = (IF next = 0 THEN <<>> ELSE SubSeq(formBuf, next + 1, Len(formBuf)))
  BY DEF FormInv, PartLast, Returns
<1>2. IF next # 0 /\ formAbort' = 0 /\ formStore' = formStore /\ formFile' = formFile
      THEN FieldComplete(formGot \o block) ELSE UNCHANGED formDone
  BY DEF PartLast
<1>3. formAbort' = 0 => formAbort = 0
  BY <1>1 DEF Deliver
<1>4. ASSUME formAbort' = 0
      PROVE  /\ next # 0
             /\ AtField("multipart", Tail(formFields), SubSeq(formBuf, next + 1, Len(formBuf)), formBody)
             /\ Taking => formGot \o block = formFields[1]
             /\ formFields # <<>> /\ Head(formFields) = formFields[1]
  <2>1. InField("multipart", formFields, formBuf, formBody, formAt, formGot, Taking) /\ next # 0
    BY <1>1, <1>3, <1>4 DEF FormInv, FormAhead, Follows
  <2>2. formFields # <<>> /\ Head(formFields) = formFields[1]
    <3>1. formFields # <<>> /\ formFields \in Seq(Contents("multipart"))
      BY <2>1 DEF InField
    <3> QED BY <3>1, HeadTailProperties
  <2>3. /\ AtField("multipart", Tail(formFields), SubSeq(formBuf, next + 1, Len(formBuf)), formBody)
        /\ Taking => formGot \o SubSeq(formBuf, formAt, next - 1) = formFields[1]
    <3> DEFINE n == next
               t == Taking
    <3>3. search_boundary(formBuf, formAt) = n /\ n # 0
      BY <2>1
    <3>4. InField("multipart", formFields, formBuf, formBody, formAt, formGot, t)
      BY <2>1
    <3> HIDE DEF n, t
    <3>5. LastSplit(formFields, formBuf, formBody, formAt, formGot, t, n)
      BY ONLY <3>3, <3>4, LastInField
    <3>6. Taking => t = TRUE
      BY DEF t
    <3> QED BY <3>5, <3>6 DEF n, LastSplit
  <2>4. block = SubSeq(formBuf, formAt, next - 1)
    BY <2>1
  <2> QED BY <2>1, <2>2, <2>3, <2>4
<1> HIDE DEF next, block
<1>5. Follows' => FormAhead'
  BY <1>1, <1>4 DEF FormAhead, Follows
<1>6. formDone'[1] = formDone'[2]
  <2>1. CASE formDone' = formDone
    BY <2>1, <1>1 DEF FormInv, FieldExact
  <2>2. CASE formAbort' = 0 /\ FieldComplete(formGot \o block)
    <3>1. CASE Taking
      <4>1. formDone' = <<formGot \o block, Head(formFields)>>
        BY <2>2, <3>1 DEF FieldComplete, Taking
      <4> QED BY <1>4, <2>2, <3>1, <4>1
    <3>2. CASE ~Taking
      BY <2>1, <2>2, <3>2 DEF FieldComplete, Taking
    <3> QED BY <3>1, <3>2
  <2> QED BY <1>2, <2>1, <2>2
<1> QED BY <1>1, <1>5, <1>6 DEF FormInv, FieldExact

\* The file is closed and the next field is next.
LEMMA FileCloses == FormInv /\ CloseFile => FormInv'
<1> SUFFICES ASSUME FormInv, CloseFile PROVE FormInv'
  OBVIOUS
<1>1. /\ formPc = "closing" /\ formPc' \in {"part", "url", "returned"}
      /\ formPc' = "part" => formKind = "multipart"
      /\ formPc' = "url" => formKind = "url"
      /\ formFields' = (IF formFields = <<>> THEN <<>> ELSE Tail(formFields))
      /\ formKind' = formKind /\ formCut' = formCut /\ formBuf' = formBuf /\ formBody' = formBody
      /\ formDone' = formDone /\ formAbort' = formAbort /\ formKind \in {"multipart", "url"}
  BY DEF FormInv, CloseFile
<1>2. ASSUME Follows' PROVE FormAhead'
  <2>1. AtField(formKind, Tail(formFields), formBuf, formBody) /\ formFields # <<>>
    BY <1>1, <1>2 DEF FormInv, FormAhead, Follows
  <2> QED BY <2>1, <1>1 DEF FormAhead
<1> QED BY <1>1, <1>2 DEF FormInv, FieldExact

\* The key of a url-encoded field, up to the first "=".
LEMMA UrlKeys == FormInv /\ UrlKey => FormInv'
<1> SUFFICES ASSUME FormInv, UrlKey PROVE FormInv'
  OBVIOUS
<1> DEFINE buf == Filled(formBuf)
           eq == {i \in DOMAIN buf : buf[i] = "="}
<1>1. /\ formPc = "url" /\ formKind = "url" /\ formPc' \in {"found", "returned"}
      /\ formKind' = formKind /\ formFields' = formFields /\ formCut' = formCut
      /\ formDone' = formDone /\ formAbort' = formAbort
      /\ formBuf' = buf /\ formBody' = Consumed(formBuf)
      /\ formPc' = "found" => eq # {} /\ formAt' = (CHOOSE i \in eq : \A j \in eq : i <= j) + 1
  BY DEF FormInv, UrlKey
<1>2. ASSUME Follows', formPc' = "found"
      PROVE  InField("url", formFields, buf, Consumed(formBuf), formAt', <<>>, TRUE)
  <2>1. AtField("url", formFields, formBuf, formBody)
    BY <1>1, <1>2 DEF FormInv, FormAhead, Follows
  <2>2. AtField("url", formFields, buf, Consumed(formBuf))
    BY <2>1, AtFieldFill
  <2>3. buf \in Seq(Tok)
    BY <2>2 DEF AtField, Stream
  <2> HIDE DEF buf
  <2>4. eq \subseteq Nat /\ eq # {}
    BY <2>3, <1>1, <1>2
  <2> DEFINE e == CHOOSE i \in eq : \A j \in eq : i <= j
  <2>5. e \in eq /\ \A j \in eq : e <= j
    <3>1. \E i \in eq : \A j \in eq : i <= j
      <4> HIDE DEF eq
      <4> QED BY <2>4, Least
    <3> HIDE DEF eq
    <3> QED BY <3>1
  <2>6. formAt' = e + 1
    BY <1>1, <1>2
  <2> HIDE DEF e
  <2>7. e \in DOMAIN buf /\ buf[e] = "=" /\ \A i \in DOMAIN buf : buf[i] = "=" => e <= i
    BY <2>5
  <2>8. InField("url", formFields, buf, Consumed(formBuf), e + 1, <<>>, TRUE)
    BY <2>2, <2>7, KeyAtField
  <2> QED BY <2>6, <2>8
<1> HIDE DEF buf, eq
<1>3. Follows' => FormAhead'
  BY <1>1, <1>2 DEF FormAhead
<1>4. FieldExact'
  BY <1>1 DEF FormInv, FieldExact
<1> QED BY <1>1, <1>3, <1>4 DEF FormInv

\* The end of a url-encoded content in the buffer.
LEMMA UrlEnds == FormInv /\ UrlValueEnds => FormInv'
<1> SUFFICES ASSUME FormInv, UrlValueEnds PROVE FormInv'
  OBVIOUS
<1> DEFINE amps == {i \in formAt..Len(formBuf) : formBuf[i] = "&"}
           next == CHOOSE i \in amps : \A j \in amps : i <= j
           block == SubSeq(formBuf, formAt, next - 1)
<1>1. /\ formPc = "value" /\ formKind = "url" /\ Deliver(block) /\ amps # {}
      /\ formKind' = formKind /\ formCut' = formCut /\ formFields' = formFields /\ formBody' = formBody
      /\ formPc' \in {"closing", "returned"}
      /\ formBuf' = SubSeq(formBuf, next + 1, Len(formBuf))
  BY DEF FormInv, UrlValueEnds
<1>2. IF formAbort' = 0 /\ formStore' = formStore /\ formFile' = formFile
      THEN FieldComplete(formGot \o block) ELSE UNCHANGED formDone
  BY DEF UrlValueEnds
<1>3. formAbort' = 0 => formAbort = 0
  BY <1>1 DEF Deliver
<1>4. ASSUME Follows'
      PROVE  /\ AtField("url", Tail(formFields), SubSeq(formBuf, next + 1, Len(formBuf)), formBody)
             /\ Taking => formGot \o block = formFields[1]
             /\ formFields # <<>> /\ Head(formFields) = formFields[1]
  <2>1. InField("url", formFields, formBuf, formBody, formAt, formGot, Taking)
    BY <1>1, <1>3, <1>4 DEF FormInv, FormAhead, Follows
  <2>2. formFields # <<>> /\ Head(formFields) = formFields[1]
    <3>1. formFields # <<>> /\ formFields \in Seq(Contents("url"))
      BY <2>1 DEF InField
    <3> QED BY <3>1, HeadTailProperties
  <2>3. formBuf \in Seq(Tok) /\ formAt \in Nat
    BY <2>1 DEF InField, Stream
  <2>4. amps \subseteq Nat
    <3>1. Len(formBuf) \in Nat
      BY <2>3
    <3> QED BY <2>3, <3>1
  <2>5. next \in amps /\ \A j \in amps : next <= j
    <3>1. \E i \in amps : \A j \in amps : i <= j
      <4> HIDE DEF amps
      <4> QED BY <1>1, <2>4, Least
    <3> HIDE DEF amps
    <3> QED BY <3>1
  <2> DEFINE n == next
             t == Taking
  <2>6. n \in formAt..Len(formBuf) /\ formBuf[n] = "&" /\ \A i \in formAt..Len(formBuf) : formBuf[i] = "&" => n <= i
    <3> HIDE DEF next
    <3> QED BY <2>5
  <2>7. InField("url", formFields, formBuf, formBody, formAt, formGot, t)
    BY <2>1
  <2> HIDE DEF n, t
  <2>8. EndSplit(formFields, formBuf, formBody, formAt, formGot, t, n)
    BY ONLY <2>6, <2>7, EndsInField
  <2>9. Taking => t = TRUE
    BY DEF t
  <2> QED BY <2>2, <2>8, <2>9 DEF EndSplit, n
<1> HIDE DEF next, block
<1>5. Follows' => FormAhead'
  BY <1>1, <1>4 DEF FormAhead, Follows
<1>6. FieldExact'
  <2>1. SUFFICES ASSUME ~formCut PROVE formDone'[1] = formDone'[2]
    BY <1>1 DEF FieldExact
  <2>2. CASE formDone' = formDone
    BY <2>1, <2>2, <1>1 DEF FormInv, FieldExact
  <2>3. CASE formAbort' = 0 /\ FieldComplete(formGot \o block)
    <3>0. Follows'
      BY <2>1, <2>3, <1>1 DEF Follows
    <3>1. CASE Taking
      <4>1. formDone' = <<formGot \o block, Head(formFields)>>
        BY <2>3, <3>1 DEF FieldComplete, Taking
      <4> QED BY <3>0, <1>4, <3>1, <4>1
    <3>2. CASE ~Taking
      BY <2>2, <2>3, <3>2 DEF FieldComplete, Taking
    <3> QED BY <3>1, <3>2
  <2> QED BY <1>2, <2>2, <2>3
<1> QED BY <1>1, <1>5, <1>6 DEF FormInv

\* A url-encoded content goes on behind the buffer, or the body ends.
LEMMA UrlBlocks == FormInv /\ UrlValueBlock => FormInv'
<1> SUFFICES ASSUME FormInv, UrlValueBlock PROVE FormInv'
  OBVIOUS
<1> DEFINE block == SubSeq(formBuf, formAt, Len(formBuf))
           k == Available(<<>>)
<1>1. /\ formPc = "value" /\ formKind = "url" /\ Deliver(block) /\ \A i \in formAt..Len(formBuf) : formBuf[i] # "&"
      /\ formKind' = formKind /\ formCut' = formCut /\ formFields' = formFields
      /\ formBuf' = Filled(<<>>) /\ formBody' = Consumed(<<>>) /\ formAt' = 1
      /\ formPc' = (IF formAbort' > 0 THEN "returned" ELSE IF k = 0 THEN "closing" ELSE "value")
  BY DEF FormInv, UrlValueBlock
<1>2. IF k = 0 /\ formAbort' = 0 /\ formStore' = formStore /\ formFile' = formFile
      THEN FieldComplete(formGot \o block) ELSE UNCHANGED formDone
  BY DEF UrlValueBlock
<1>3. formAbort' = 0 => formAbort = 0
  BY <1>1 DEF Deliver
<1>4. ASSUME Follows'
      PROVE  /\ InField("url", formFields, Filled(<<>>), Consumed(<<>>), 1, formGot', Taking')
             /\ k = 0 => /\ AtField("url", Tail(formFields), Filled(<<>>), Consumed(<<>>))
                         /\ Taking => formGot \o block = formFields[1]
             /\ formFields # <<>> /\ Head(formFields) = formFields[1]
  <2>1. InField("url", formFields, formBuf, formBody, formAt, formGot, Taking)
    BY <1>1, <1>3, <1>4 DEF FormInv, FormAhead, Follows
  <2>2. formFields # <<>> /\ Head(formFields) = formFields[1]
    <3>1. formFields # <<>> /\ formFields \in Seq(Contents("url"))
      BY <2>1 DEF InField
    <3> QED BY <3>1, HeadTailProperties
  <2> DEFINE t == Taking
  <2>3. InField("url", formFields, formBuf, formBody, formAt, formGot, t)
    BY <2>1
  <2>4. Taking => t = TRUE
    OBVIOUS
  <2> HIDE DEF t
  <2>5. WholeRead(formFields, formBuf, formBody, formAt, formGot, t)
    <3>1. \A i \in formAt..Len(formBuf) : formBuf[i] # "&"
      BY <1>1
    <3> QED BY ONLY <3>1, <2>3, WholeInField
  <2> HIDE DEF block, k
  <2>6. InField("url", formFields, <<>>, formBody, 1, formGot \o block, t)
    BY <2>5 DEF WholeRead, block
  <2>7. InField("url", formFields, Filled(<<>>), Consumed(<<>>), 1, formGot \o block, t)
    BY <2>6, InFieldFill
  <2>8. InField("url", formFields, Filled(<<>>), Consumed(<<>>), 1, formGot', Taking')
    <3>1. InField("url", formFields, Filled(<<>>), Consumed(<<>>), 1, formGot \o block, Taking)
      BY <2>7 DEF t
    <3>2. formAbort' = 0 /\ Deliver(block)
      BY <1>1, <1>4 DEF Follows
    <3> QED BY <3>1, <3>2, Delivers
  <2>9. ASSUME k = 0
        PROVE  /\ AtField("url", Tail(formFields), Filled(<<>>), Consumed(<<>>))
               /\ Taking => formGot \o block = formFields[1]
    <3>1. PICK V, o : Stream("url", <<>>, formBody, 1, V, o)
      BY <2>6 DEF InField
    <3>2. Len(<<>>) = 0 /\ Len(<<>>) < FormBuffer
      BY FormAssumption
    <3>3. /\ Available(<<>>) = 0 => Len(formBody) = 0 /\ Len(Consumed(<<>>)) = 0
          /\ Len(Filled(<<>>)) = Len(<<>>) + Available(<<>>)
          /\ Stream("url", Filled(<<>>), Consumed(<<>>), 1, V, o)
      BY <3>1, <3>2, StreamFill
    <3>4. Len(formBody) = 0 /\ Len(Consumed(<<>>)) = 0 /\ Len(Filled(<<>>)) = 0
      BY <2>9, <3>2, <3>3 DEF k
    <3>5. Consumed(<<>>) \in Seq(Tok) /\ Filled(<<>>) \in Seq(Tok)
      BY <3>3 DEF Stream
    <3>6. Consumed(<<>>) = <<>> /\ Filled(<<>>) = <<>>
      BY <3>4, <3>5
    <3>7. AtField("url", Tail(formFields), <<>>, <<>>) /\ (t = TRUE => formGot \o block = formFields[1])
      BY <2>5, <3>4 DEF WholeRead, block
    <3> QED BY <3>6, <3>7, <2>4
  <2> QED BY <2>2, <2>8, <2>9
<1> HIDE DEF block, k
<1>5. Follows' => FormAhead'
  <2>1. ASSUME Follows' PROVE FormAhead'
    <3>1. formPc' = IF k = 0 THEN "closing" ELSE "value"
      BY <1>1, <2>1 DEF Follows
    <3> QED BY <1>1, <1>4, <2>1, <3>1 DEF FormAhead
  <2> QED BY <2>1
<1>6. FieldExact'
  <2>1. SUFFICES ASSUME ~formCut PROVE formDone'[1] = formDone'[2]
    BY <1>1 DEF FieldExact
  <2>2. CASE formDone' = formDone
    BY <2>1, <2>2, <1>1 DEF FormInv, FieldExact
  <2>3. CASE k = 0 /\ formAbort' = 0 /\ FieldComplete(formGot \o block)
    <3>0. Follows'
      BY <2>1, <2>3, <1>1 DEF Follows
    <3>1. CASE Taking
      <4>1. formDone' = <<formGot \o block, Head(formFields)>>
        BY <2>3, <3>1 DEF FieldComplete, Taking
      <4> QED BY <3>0, <1>4, <2>3, <3>1, <4>1
    <3>2. CASE ~Taking
      BY <2>2, <2>3, <3>2 DEF FieldComplete, Taking
    <3> QED BY <3>1, <3>2
  <2> QED BY <1>2, <2>2, <2>3
<1> QED BY <1>1, <1>5, <1>6 DEF FormInv

\* Every step keeps the invariant, for any fields, any size of the buffer and any pieces in
\* which the body arrives.
LEMMA FormStep == FormInv /\ [FormNext]_formVars => FormInv'
<1>1. FormInv /\ UNCHANGED formVars => FormInv'
  <2> SUFFICES ASSUME FormInv, UNCHANGED formVars PROVE FormInv'
    OBVIOUS
  <2>1. /\ formPc' = formPc /\ formKind' = formKind /\ formFields' = formFields /\ formCut' = formCut
        /\ formBody' = formBody /\ formBuf' = formBuf /\ formAt' = formAt /\ formStore' = formStore
        /\ formGot' = formGot /\ formFile' = formFile /\ formDone' = formDone /\ formAbort' = formAbort
    BY DEF formVars
  <2>2. (search_boundary(formBuf, formAt))' = search_boundary(formBuf, formAt)
    BY <2>1 DEF search_boundary
  <2>3. (Taking' <=> Taking) /\ (Follows' <=> Follows) /\ (FieldExact' <=> FieldExact)
    BY <2>1 DEF Taking, Follows, FieldExact
  <2>4. Follows' => FormAhead'
    <3>1. SUFFICES ASSUME FormAhead PROVE FormAhead'
      BY <2>3 DEF FormInv
    <3>2. InField(formKind, formFields, formBuf, formBody, formAt, formGot, Taking)
            => InField(formKind, formFields, formBuf, formBody, formAt, formGot, Taking')
      <4>1. Taking' = Taking
        BY <2>1 DEF Taking
      <4> QED BY <4>1
    <3> QED BY <2>1, <2>2, <3>1, <3>2 DEF FormAhead
  <2> QED BY <2>1, <2>3, <2>4 DEF FormInv
<1>2. FormInv /\ FormReset => FormInv'
  BY DEF FormInv, FormReset, FormAhead, FieldExact
<1>3. FormInv /\ PartShort => FormInv'
  BY DEF FormInv, PartShort, Returns, FormAhead, FieldExact
<1> QED BY <1>1, <1>2, <1>3, FormStarts, PartBegins, FieldIsFound, PartBlocks, PartLasts, FileCloses,
           UrlKeys, UrlEnds, UrlBlocks DEF FormNext

\* No form is read at the beginning.
LEMMA FormBegins == FormInit => FormInv
BY DEF FormInit, FormInv, FormAhead, FieldExact

-----------------------------------------------------------------------------
(* The data of a request together *)

\* RequestData: field_get and the files get what the client sent in a field, a CGI program
\* gets all variables, each at the place its pointer says, and a handler of the C++ wrapper
\* gets no form data but those of its own request (mg_handle_form_request, addenv, getParam).
THEOREM RequestDataExact ==
    /\ FormInit /\ [][FormNext]_formVars
    /\ EnvInit /\ [][EnvNext]_envVars
    /\ CivetInit /\ [][CivetNext]_civetVars
    => []RequestData
<1>1. FormInit /\ EnvInit /\ CivetInit => FormInv /\ EnvInv /\ CivetInv
  BY FormBegins, EnvBegins, CivetStart
<1>2. /\ FormInv /\ EnvInv /\ CivetInv
      /\ [FormNext]_formVars /\ [EnvNext]_envVars /\ [CivetNext]_civetVars
      => FormInv' /\ EnvInv' /\ CivetInv'
  BY FormStep, EnvStep, CivetStep
<1>3. FormInv /\ EnvInv /\ CivetInv => RequestData
  BY EnvSafe, CivetSafe DEF FormInv, RequestData
<1> QED BY <1>1, <1>2, <1>3, PTL
=============================================================================
