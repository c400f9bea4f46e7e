----------------------------- MODULE LuaShared -----------------------------
(***************************************************************************)
(* The table "shared" that all Lua states of the server can read and write *)
(* (mod_lua_shared.inl).  It lives in a Lua state of its own, L_shared; an *)
(* access locks a mutex and works on that state's stack, so that it is one *)
(* step here.  The functions of the Lua library are what they do to the    *)
(* stack and the table.                                                    *)
(***************************************************************************)
EXTENDS Integers, Sequences, SequencesExt

CONSTANTS SharedKeys,   \* names and numbers that scripts use
          MaxShared     \* bound: the largest number that is stored

ASSUME LuaSharedAssumption == MaxShared \in Nat

Reserved == "__name"    \* any name that begins with two underscores
number(n) == [type |-> "number", n |-> n]
Nil == [type |-> "nil", n |-> 0]
Text == [type |-> "string", n |-> 0]
Numbers == -MaxShared..MaxShared

VARIABLES L_shared,     \* the stack and the table of the shared state, or none
          sharedResult, \* what the last access returned to its script
          sharedWant    \* what it has to return

sharedVars == <<L_shared, sharedResult, sharedWant>>
AllKeys == SharedKeys \cup {Reserved}

SharedOff == [stack |-> <<>>, table |-> [k \in AllKeys |-> Nil], on |-> FALSE]
SharedInit == L_shared = SharedOff /\ sharedResult = Nil /\ sharedWant = Nil

-----------------------------------------------------------------------------
(* The Lua library *)

push(L, v) == [L EXCEPT !.stack = Append(@, v)]
getglobal(L) == push(L, "shared")
pop(L, n) == [L EXCEPT !.stack = SubSeq(@, 1, Len(@) - n)]
top(L) == Last(L.stack)

\* The key on top is replaced by its value; the table is below it.
rawget(L) == push(pop(L, 1), L.table[top(L)])

\* Value and key are taken off the stack.
rawset(L) == [pop(L, 2) EXCEPT !.table[L.stack[Len(L.stack) - 1]] = top(L)]

\* lua_tonumber of a value that is none is 0.
tonumber(v) == number(v.n)

-----------------------------------------------------------------------------
lua_shared_init ==
    /\ ~L_shared.on /\ L_shared' = [SharedOff EXCEPT !.on = TRUE]
    /\ UNCHANGED <<sharedResult, sharedWant>>

lua_shared_exit ==
    /\ L_shared.on /\ L_shared' = SharedOff /\ sharedResult' = Nil /\ sharedWant' = Nil

\* The stack with the table and the present value of a name on it.
SharedFound(name) == rawget(push(getglobal(L_shared), name))

\* The new value is stored, with the table pushed a second time.
Exchange(name, new) ==
    /\ new.n \in Numbers
    /\ L_shared' = pop(rawset(push(push(getglobal(SharedFound(name)), name), new)), 3)

\* __add, __inc and __dec return the sum.  No name is refused.
shared_locked_add(name, value) ==
    LET sum == number(tonumber(top(SharedFound(name))).n + value)
    IN  /\ L_shared.on /\ Exchange(name, sum) /\ sharedResult' = sum
        /\ sharedWant' = L_shared'.table[name]

lua_shared_exchange(name, value) ==
    /\ L_shared.on /\ Exchange(name, number(value))
    /\ sharedResult' = tonumber(top(SharedFound(name)))
    /\ sharedWant' = tonumber(L_shared.table[name])

\* Mutant: the table is left on the stack.
SharedIndexLeaves(key) ==
    /\ L_shared.on /\ key # Reserved
    /\ LET L == rawget(push(getglobal(L_shared), key))
       IN  L_shared' = pop(L, 1) /\ sharedResult' = top(L) /\ sharedWant' = L_shared.table[key]

\* x = shared.key; a reserved name is not looked up.
lua_shared_index(key) ==
    /\ L_shared.on /\ key # Reserved
    /\ LET L == rawget(push(getglobal(L_shared), key))
       IN  L_shared' = pop(L, 2) /\ sharedResult' = top(L) /\ sharedWant' = L_shared.table[key]

ReservedIndex ==
    /\ L_shared.on /\ sharedResult' = Nil /\ sharedWant' = Nil /\ UNCHANGED L_shared

\* shared.key = value; reserved names and other types are errors before the mutex is locked.
lua_shared_newindex(key, value) ==
    /\ L_shared.on /\ key # Reserved
    /\ L_shared' = pop(rawset(push(push(getglobal(L_shared), key), value)), 1)
    /\ UNCHANGED <<sharedResult, sharedWant>>

SharedNext ==
    \/ lua_shared_init \/ lua_shared_exit \/ ReservedIndex
    \/ \E k \in AllKeys :
         \/ \E n \in Numbers : shared_locked_add(k, n) \/ lua_shared_exchange(k, n)
         \/ lua_shared_index(k)
         \/ \E v \in {number(n) : n \in Numbers} \cup {Nil, Text} : lua_shared_newindex(k, v)

-----------------------------------------------------------------------------
(* Properties *)

\* Every access leaves the stack of the shared state as it found it, and a script gets the
\* value that was in the table: one value more for each access would overflow the stack of
\* a state that lives as long as the server (mod_lua_shared.inl:91, 156, 242, 311).
SharedBalanced == L_shared.stack = <<>> /\ sharedResult = sharedWant
=============================================================================
