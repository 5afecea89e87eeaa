------------------------------- MODULE LfRef -------------------------------
(***************************************************************************)
(* The platform layer under the heads of Hyaline (__lfref_* of mips.h,     *)
(* ppc.h, gcc_x86.h, llvm_x86.h and c11.h in hyaline/bits): atomic         *)
(* operations on a pair of words, a counter and a pointer, on CPUs with    *)
(* LL/SC for one word (MIPS, PowerPC), with a compare-and-swap for two     *)
(* words (x86), or with what C11 offers.  AtomicRef is what they promise.  *)
(*                                                                         *)
(* The CPU: a load-linked reserves the words of a pair together (they are  *)
(* aligned to their size); a store to one of them ends the reservation,    *)
(* and a store-conditional may fail for no reason.                         *)
(***************************************************************************)
EXTENDS AtomicRef

CONSTANT Builds     \* the builds: see Build

\* The header; pairs of two words, or packed in one; loads of a pair split in
\* two (config.h); the word of the pair with the lower address; whether the
\* compiler says so (__LITTLE_ENDIAN__ defined).
Build == [cpu : {"mips", "ppc", "gcc_x86", "llvm_x86", "c11"}, wide : BOOLEAN,
          split : BOOLEAN, low : {"ref", "ptr"}, little : BOOLEAN]

\* Nobody defines the macro where the pointer has the higher address.  That
\* it is defined wherever the pointer has the lower one is assumed of PowerPC
\* only, where ppc.h finds both words by it.
ASSUME LfRefAssumption ==
    /\ Builds \subseteq Build
    /\ \A b \in Builds : b.little => b.low = "ptr"
    /\ \A b \in Builds : b.cpu = "ppc" /\ b.low = "ptr" => b.little

VARIABLES
    build,
    pc,         \* pc[t]: the next step of the call of t
    resv,       \* resv[t]: t holds the reservation of its load-linked
    result      \* result[t]: the register [result] of MIPS, cr0.EQ of PowerPC

refVars == <<mem, call, val, build, pc, resv, result>>

Other(w) == IF w = "ref" THEN "ptr" ELSE "ref"
Llsc == build.cpu \in {"mips", "ppc"}

\* __LFREF_CMPXCHG_FULL: LL/SC writes one word of a wide pair.
Full == Llsc => ~build.wide

\* The word that LL/SC loads first and writes.
First(op) == IF op \in {"ptr_weak", "ptr_strong"} THEN "ptr" ELSE "ref"
Second(op) == Other(First(op))

\* The word that __lfref_link reads (__LFREF_LINK).
Linked == IF build.little THEN build.low ELSE Other(build.low)

\* The compiler says where the pointer is.  GCC for x86 does not.
Declared == build.low = "ptr" => build.little

-----------------------------------------------------------------------------
\* __LFREF_ATOMICS_IMPL: the first step of an operation.  Packed pairs are
\* left to the atomics of C11, which are single steps here.
LlscStart(op) ==
    CASE ~build.wide -> "atomic"
      [] build.wide /\ op \in Loads -> IF op = "load" THEN "low" ELSE "link"
      [] OTHER -> "ll"
GccX86Start(op) ==
    CASE ~build.wide -> "atomic"
      [] build.wide /\ op \in {"load", "add"} -> "any"
      [] build.wide /\ op = "link" -> "link"
      [] OTHER -> "cmpxchg"
LlvmX86Start(op) ==
    CASE build.wide /\ op = "load" -> "any"
      [] build.wide /\ op = "link" -> "link"
      [] OTHER -> "atomic"
C11Start(op) ==
    CASE build.wide /\ build.split /\ op = "load" -> "low"
      [] build.wide /\ build.split /\ op = "link" -> "link"
      [] OTHER -> "atomic"
Start(op) ==
    CASE Llsc -> LlscStart(op)
      [] build.cpu = "gcc_x86" -> GccX86Start(op)
      [] build.cpu = "llvm_x86" -> LlvmX86Start(op)
      [] OTHER -> C11Start(op)

Steps == {"idle", "low", "high", "any", "rest", "link", "ll", "ld", "sc",
          "test", "cmpxchg", "atomic", "ret"}

LfRefTypeOK ==
    /\ TypeOK
    /\ build \in Builds
    /\ pc \in [Threads -> Steps]
    /\ resv \in [Threads -> BOOLEAN]
    /\ result \in [Threads -> Nat]

LfRefInit ==
    /\ Init
    /\ build \in Builds
    /\ pc = [t \in Threads |-> "idle"]
    /\ resv = [t \in Threads |-> FALSE]
    /\ result = [t \in Threads |-> 0]

Goto(t, l) == pc' = [pc EXCEPT ![t] = l]
Finish(t, ok) == call' = [call EXCEPT ![t].done = TRUE, ![t].ok = ok]
ReadWord(t, w) == val' = [val EXCEPT ![t][w] = mem[w]]

\* A store to the pair ends the reservations of all threads.
Store(p) ==
    /\ mem' = p
    /\ resv' = [t \in Threads |-> FALSE]

\* Hyaline calls an operation.  A caller changes the word the operation is
\* named for; where the compare-and-swap is full it may change both.
CallOp(t) ==
    /\ pc[t] = "idle"
    /\ \E op \in Ops : \E e, d \in Args(op) :
          /\ ~Full => d[Second(op)] = e[Second(op)]
          /\ call' = [call EXCEPT ![t] = NewCall(op, e, d)]
          /\ Goto(t, Start(op))
    /\ UNCHANGED <<mem, val, build, resv, result>>

-----------------------------------------------------------------------------
\* Loads.

\* __lfbig_load of mips.h and ppc.h, __lfref_load of c11.h: two loads, the
\* lower word first; also the reload after a weak compare-and-swap.
LoadLow(t) ==
    /\ pc[t] = "low"
    /\ ReadWord(t, build.low)
    /\ Goto(t, "high")
    /\ UNCHANGED <<mem, call, build, resv, result>>

LoadHigh(t) ==
    /\ pc[t] = "high"
    /\ ReadWord(t, Other(build.low))
    /\ IF call[t].op \in Loads THEN Finish(t, TRUE) ELSE UNCHANGED call
    /\ Goto(t, "ret")
    /\ UNCHANGED <<mem, build, resv, result>>

\* __lfbig_load of gcc_x86.h, __lfref_load of llvm_x86.h: a volatile access
\* to two words, which compilers split as they like; also the first load of
\* __lfbig_fetch_add.
LoadAny(t) ==
    /\ pc[t] = "any"
    /\ \E w \in {"ref", "ptr"} : ReadWord(t, w)
    /\ Goto(t, "rest")
    /\ UNCHANGED <<mem, call, build, resv, result>>

LoadRest(t) ==
    /\ pc[t] = "rest"
    /\ ReadWord(t, IF val[t].ref = Unknown THEN "ref" ELSE "ptr")
    /\ IF call[t].op = "load"
       THEN Finish(t, TRUE) /\ Goto(t, "ret")
       ELSE UNCHANGED call /\ Goto(t, "cmpxchg")
    /\ UNCHANGED <<mem, build, resv, result>>

\* __lfref_link of a wide pair: one load.  What it returns is taken for the
\* pointer.
Link(t) ==
    /\ pc[t] = "link"
    /\ val' = [val EXCEPT ![t].ptr = mem[Linked]]
    /\ Finish(t, TRUE)
    /\ Goto(t, "ret")
    /\ UNCHANGED <<mem, build, resv, result>>

-----------------------------------------------------------------------------
\* LL/SC: __LFMIPS_CMPXCHG and __LFMIPS_OP, __LFPPC_CMPXCHG and __LFPPC_OP.

\* The load-linked.  The outcome of a strong compare-and-swap that finds
\* another word is settled here, though it still loads the second one.
LoadLinked(t) ==
    LET op == call[t].op IN
    /\ pc[t] = "ll"
    /\ ReadWord(t, First(op))
    /\ resv' = [resv EXCEPT ![t] = TRUE]
    /\ IF op \in Strong /\ mem[First(op)] # call[t].exp[First(op)]
       THEN Finish(t, FALSE) ELSE UNCHANGED call
    /\ Goto(t, "ld")
    /\ UNCHANGED <<mem, build, result>>

\* A plausible mistake (a mutant): the second load is taken out of the loop.
LoadSecondOnce(t) ==
    LET op == call[t].op
        exp == call[t].exp
        second == IF val[t][Second(op)] = Unknown THEN mem[Second(op)]
                  ELSE val[t][Second(op)]
        both == val[t][First(op)] = exp[First(op)] /\ second = exp[Second(op)]
    IN
    /\ pc[t] = "ld"
    /\ val' = [val EXCEPT ![t][Second(op)] = second]
    /\ Goto(t, IF op = "add" \/ both THEN "sc" ELSE "test")
    /\ IF op \in Strong /\ ~both THEN Finish(t, FALSE) ELSE UNCHANGED call
    /\ result' = [result EXCEPT ![t] = 0]
    /\ UNCHANGED <<mem, build, resv>>

\* The load of the second word and the comparisons.  MIPS loads it in the
\* delay slot of the first branch, and moves desired_first to [result] in
\* that of the second.
LoadSecond(t) ==
    LET op == call[t].op
        exp == call[t].exp
        same == val[t][First(op)] = exp[First(op)]
        both == same /\ mem[Second(op)] = exp[Second(op)]
    IN
    /\ pc[t] = "ld"
    /\ ReadWord(t, Second(op))
    /\ Goto(t, IF op = "add" \/ both THEN "sc" ELSE "test")
    /\ IF op \in Strong /\ ~both THEN Finish(t, FALSE) ELSE UNCHANGED call
    /\ result' = [result EXCEPT ![t] =
          IF build.cpu = "mips" /\ op \in Cas /\ same
          THEN call[t].des[First(op)] ELSE 0]
    /\ UNCHANGED <<mem, build, resv>>

\* A plausible mistake (a mutant): the counter carries into the next word.
DesiredWide(t) ==
    IF call[t].op = "add" THEN [mem EXCEPT !.ref = val[t].ref + 1]
    ELSE [mem EXCEPT ![First(call[t].op)] = call[t].des[First(call[t].op)]]

\* What the store-conditional of t writes.
Desired(t) ==
    IF call[t].op = "add" THEN [mem EXCEPT !.ref = (val[t].ref + 1) % RefMod]
    ELSE [mem EXCEPT ![First(call[t].op)] = call[t].des[First(call[t].op)]]

StoreConditional(t) ==
    /\ pc[t] = "sc"
    /\ resv[t]
    /\ Store(Desired(t))
    /\ Finish(t, TRUE)
    /\ result' = [result EXCEPT ![t] = 1]
    /\ Goto(t, IF call[t].op = "add" THEN "ret" ELSE "test")
    /\ UNCHANGED <<val, build>>

\* It fails: without a reservation always.  A weak compare-and-swap gives up.
ScFails(t) ==
    /\ pc[t] = "sc"
    /\ resv' = [resv EXCEPT ![t] = FALSE]
    /\ result' = [result EXCEPT ![t] = 0]
    /\ Goto(t, IF call[t].op \in Weak THEN "test" ELSE "ll")
    /\ UNCHANGED <<mem, call, val, build>>

\* A plausible mistake (a mutant): no test of arg_second, which the delay slot
\* asks for.
SuccessOfResult(t) ==
    IF call[t].op \in Strong THEN val[t] = call[t].exp ELSE result[t] # 0

\* What a compare-and-swap returns.
Success(t) ==
    LET exp == call[t].exp
        second == Second(call[t].op)
    IN
    IF call[t].op \in Strong THEN val[t] = exp
    ELSE /\ result[t] # 0
         /\ build.cpu = "mips" => val[t][second] = exp[second]

\* A weak one that failed reloads the pair.
Test(t) ==
    /\ pc[t] = "test"
    /\ Finish(t, Success(t))
    /\ Goto(t, IF call[t].op \in Weak /\ ~Success(t) THEN "low" ELSE "ret")
    /\ UNCHANGED <<mem, val, build, resv, result>>

-----------------------------------------------------------------------------
\* Compare-and-swap of both words.

\* cmpxchg16b and cmpxchg8b of gcc_x86.h, alone and in the loop of
\* __lfbig_fetch_add.
Cmpxchg(t) ==
    LET op == call[t].op
        exp == IF op = "add" THEN val[t] ELSE call[t].exp
        des == IF op = "add" THEN [exp EXCEPT !.ref = (@ + 1) % RefMod]
               ELSE call[t].des
    IN
    /\ pc[t] = "cmpxchg"
    /\ IF mem = exp
       THEN Store(des) /\ Finish(t, TRUE) /\ Goto(t, "ret")
       ELSE /\ UNCHANGED <<mem, resv>>
            /\ IF op = "add" THEN UNCHANGED <<call, pc>>
               ELSE Finish(t, FALSE) /\ Goto(t, "ret")
    /\ val' = [val EXCEPT ![t] = mem]
    /\ UNCHANGED <<build, result>>

\* An operation left to C11.
AtomicStep(t) ==
    LET op == call[t].op IN
    /\ pc[t] = "atomic"
    /\ \/ op \in Loads \union {"add"}
          /\ Finish(t, TRUE)
          /\ IF op = "add"
             THEN Store([mem EXCEPT !.ref = (@ + 1) % RefMod])
             ELSE UNCHANGED <<mem, resv>>
       \/ op \in Cas /\ mem = call[t].exp
          /\ Finish(t, TRUE)
          /\ Store(call[t].des)
       \/ op \in Cas /\ (mem # call[t].exp \/ op \in Weak)
          /\ Finish(t, FALSE)
          /\ UNCHANGED <<mem, resv>>
    /\ val' = [val EXCEPT ![t] = mem]
    /\ Goto(t, "ret")
    /\ UNCHANGED <<build, result>>

Ret(t) ==
    /\ pc[t] = "ret"
    /\ call' = [call EXCEPT ![t] = NoCall]
    /\ val' = [val EXCEPT ![t] = Nothing]
    /\ result' = [result EXCEPT ![t] = 0]
    /\ resv' = [resv EXCEPT ![t] = FALSE]
    /\ Goto(t, "idle")
    /\ UNCHANGED <<mem, build>>

LfRefStep(t) ==
    \/ CallOp(t) \/ LoadLow(t) \/ LoadHigh(t) \/ LoadAny(t) \/ LoadRest(t)
    \/ Link(t) \/ LoadLinked(t) \/ LoadSecond(t) \/ StoreConditional(t)
    \/ ScFails(t) \/ Test(t) \/ Cmpxchg(t) \/ AtomicStep(t) \/ Ret(t)

LfRefNext == \E t \in Threads : LfRefStep(t)

LfRefSpec == LfRefInit /\ [][LfRefNext]_refVars

-----------------------------------------------------------------------------
\* Between the load-linked and the store-conditional: while t holds its
\* reservation, the words it has read since are those of the pair, so that a
\* store-conditional that succeeds acts on both words at once although it
\* compares and writes one (the loops of mips.h and ppc.h).
Coherent ==
    \A t \in Threads : resv[t] =>
        /\ pc[t] \in {"ld", "sc"} => val[t][First(call[t].op)] = mem[First(call[t].op)]
        /\ pc[t] = "sc" => val[t] = mem

\* Every operation of every header takes effect at once or not at all, and
\* tells which: LfRef implements AtomicRef, in a build where Declared holds.
Refines == Spec

\* In any build a step is one of AtomicRef, but for that of __lfref_link where
\* the byte order is not declared.
StepOrLink == [][Next \/ \E t \in Threads : ~Declared /\ Link(t)]_vars

\* What __lfref_link has read is a pointer: __LFREF_LINK is, as lf.h:79 says,
\* the "Pointer index for double-width types".
LinkReadsPointer ==
    \A t \in Threads :
        call[t].op = "link" /\ call[t].done => val[t].ptr \in PtrVals
=============================================================================
