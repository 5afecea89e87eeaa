----------------------------- MODULE AtomicRef -----------------------------
(***************************************************************************)
(* What module Hyaline takes for granted about the head of a slot          *)
(* (__lfref_* in hyaline/bits/lf.h): a pair of a counter and a pointer.    *)
(* A compare-and-swap that succeeds and a fetch_add take effect at one     *)
(* instant of the call.  A strong compare-and-swap fails only if the pair  *)
(* was another one at an instant of the call; a weak one may fail always.  *)
(* A load and a failed compare-and-swap return two words that were in the  *)
(* pair during the call, if not at the same time.                          *)
(***************************************************************************)
EXTENDS Integers

CONSTANTS
    Threads,
    RefMod,     \* counters are numbers modulo RefMod
    PtrVals,    \* the values of pointers; 0 is the null pointer
    Unknown     \* a word that was not read

ASSUME AtomicRefAssumption ==
    /\ RefMod \in Nat \ {0}
    /\ Unknown \notin Nat
    /\ PtrVals \subseteq Nat

VARIABLES
    mem,        \* the pair
    call,       \* call[t]: the call of thread t
    val         \* val[t]: what the call has read

vars == <<mem, call, val>>

RefVals == 0 .. RefMod - 1
Pair == [ref : RefVals, ptr : PtrVals]
\* A register that was read holds a word, not known to be a pointer.
Words == RefVals \union PtrVals \union {Unknown}
Seen == [ref : Words, ptr : Words]
Nothing == [ref |-> Unknown, ptr |-> Unknown]

Weak == {"ptr_weak", "ref_weak"}
Strong == {"ptr_strong", "ref_strong"}
Cas == Weak \union Strong
Loads == {"load", "link"}
Ops == Cas \union Loads \union {"add"}

\* exp and des: what a compare-and-swap expects and what it writes; done: the
\* call has taken effect; ok: it was a success.
Call == [op : Ops \union {"none"}, exp : Pair \union {Nothing},
         des : Pair \union {Nothing}, done : BOOLEAN, ok : BOOLEAN]
NoCall == [op |-> "none", exp |-> Nothing, des |-> Nothing,
           done |-> FALSE, ok |-> FALSE]
NewCall(op, e, d) == [op |-> op, exp |-> e, des |-> d,
                      done |-> FALSE, ok |-> FALSE]
Args(op) == IF op \in Cas THEN Pair ELSE {Nothing}

TypeOK == mem \in Pair /\ call \in [Threads -> Call] /\ val \in [Threads -> Seen]

\* From v to v1 some words of the pair m were read (again).
Reread(v, v1, m) ==
    /\ v1 \in Seen
    /\ v1.ref \in {v.ref, m.ref}
    /\ v1.ptr \in {v.ptr, m.ptr}

\* What a call must have read before it returns.
Complete(c, v) == v.ptr # Unknown /\ (c.op # "link" => v.ref # Unknown)

Init ==
    /\ mem \in Pair
    /\ call = [t \in Threads |-> NoCall]
    /\ val = [t \in Threads |-> Nothing]

Begin(t) ==
    /\ call[t] = NoCall
    /\ \E op \in Ops : \E e, d \in Args(op) :
          call' = [call EXCEPT ![t] = NewCall(op, e, d)]
    /\ UNCHANGED <<mem, val>>

\* The call reads.
Look(t) ==
    /\ call[t].op # "none" /\ ~call[t].ok
    /\ \E v \in Seen : Reread(val[t], v, mem) /\ val' = [val EXCEPT ![t] = v]
    /\ UNCHANGED <<mem, call>>

\* The last read of a load.
Load(t) ==
    /\ call[t].op \in Loads /\ ~call[t].done
    /\ \E v \in Seen : Reread(val[t], v, mem) /\ val' = [val EXCEPT ![t] = v]
    /\ call' = [call EXCEPT ![t].done = TRUE, ![t].ok = TRUE]
    /\ UNCHANGED mem

Swap(t) ==
    /\ call[t].op \in Cas /\ ~call[t].done
    /\ mem = call[t].exp
    /\ mem' = call[t].des
    /\ call' = [call EXCEPT ![t].done = TRUE, ![t].ok = TRUE]
    /\ val' = [val EXCEPT ![t] = call[t].exp]

Fail(t) ==
    /\ call[t].op \in Cas /\ ~call[t].done
    /\ call[t].op \in Strong => mem # call[t].exp
    /\ \E v \in Seen : Reread(val[t], v, mem) /\ val' = [val EXCEPT ![t] = v]
    /\ call' = [call EXCEPT ![t].done = TRUE]
    /\ UNCHANGED mem

Add(t) ==
    /\ call[t].op = "add" /\ ~call[t].done
    /\ mem' = [mem EXCEPT !.ref = (@ + 1) % RefMod]
    /\ call' = [call EXCEPT ![t].done = TRUE, ![t].ok = TRUE]
    /\ val' = [val EXCEPT ![t] = mem]

\* The call returns what it has read and whether it was a success.
Return(t) ==
    /\ call[t].done
    /\ Complete(call[t], val[t])
    /\ call' = [call EXCEPT ![t] = NoCall]
    /\ val' = [val EXCEPT ![t] = Nothing]
    /\ UNCHANGED mem

Next == \E t \in Threads :
    \/ Begin(t) \/ Look(t) \/ Load(t) \/ Swap(t) \/ Fail(t) \/ Add(t)
    \/ Return(t)

Spec == Init /\ [][Next]_vars
=============================================================================
