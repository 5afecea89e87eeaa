---------------------------- MODULE LfRefProofs ----------------------------
(***************************************************************************)
(* LfRef implements AtomicRef, for any threads, counters and pointers and  *)
(* every build that declares its byte order; in any other build all its    *)
(* steps do but that of __lfref_link.  The inductive invariant IInv says   *)
(* of each step of a call what has been read and settled before it (Good), *)
(* and that the words read under a reservation are those of the pair       *)
(* (Coherent).                                                             *)
(***************************************************************************)
EXTENDS LfRef, TLAPS

\* A call c at step p that has read v, with the register r.
Known(v) == v.ref # Unknown /\ v.ptr # Unknown
Pending(c) == ~c.done /\ ~c.ok
Reloading(c) == c.op \in Weak /\ c.done /\ ~c.ok

Loading(c, v, p) ==
    /\ p \in {"low", "high"} => (c.op = "load" /\ Pending(c)) \/ Reloading(c)
    /\ p = "high" => v[build.low] # Unknown
    /\ p \in {"any", "rest"} => c.op \in {"load", "add"} /\ Pending(c)
    /\ p = "rest" => v.ref # Unknown \/ v.ptr # Unknown
    /\ p = "link" => c.op = "link" /\ Pending(c)
    /\ p = "atomic" => Pending(c)
    /\ p = "cmpxchg" => /\ c.op \in Cas \union {"add"} /\ Pending(c)
                        /\ c.op = "add" => Known(v)

OneWord(c) == c.op \in Cas => c.des[Second(c.op)] = c.exp[Second(c.op)]
Failed(c, v, r) ==
    \/ c.op \in Strong /\ c.done /\ ~c.ok /\ v # c.exp
    \/ /\ c.op \in Weak /\ Pending(c)
       /\ r # 0 => build.cpu = "mips" /\ v[Second(c.op)] # c.exp[Second(c.op)]

Reserved(c, v, p, r) ==
    /\ p \in {"ll", "ld", "sc"} => c.op \in Cas \union {"add"} /\ OneWord(c)
    /\ p = "ll" => Pending(c)
    /\ p = "ld" => /\ v[First(c.op)] # Unknown /\ ~c.ok
                   /\ c.op \in Strong => (c.done <=> v[First(c.op)] # c.exp[First(c.op)])
                   /\ c.op \notin Strong => ~c.done
    /\ p = "sc" => /\ Pending(c) /\ Known(v)
                   /\ c.op \in Cas => v = c.exp
    /\ p = "test" => /\ c.op \in Cas /\ Known(v)
                     /\ \/ c.done /\ c.ok /\ v = c.exp /\ r # 0
                        \/ Failed(c, v, r)

Good(c, v, p, r) ==
    /\ p = "idle" => c = NoCall /\ v = Nothing
    /\ p # "idle" => /\ c.op \in Ops
                     /\ c.op \in Cas => c.exp \in Pair /\ c.des \in Pair
    /\ p = "ret" => c.done /\ Complete(c, v)
    /\ Loading(c, v, p)
    /\ Reserved(c, v, p, r)

Phases == \A t \in Threads : Good(call[t], val[t], pc[t], result[t])

IInv == LfRefTypeOK /\ Coherent /\ Phases

-----------------------------------------------------------------------------
\* The parts of the actions.

LEMMA FinishEffect ==
    ASSUME NEW t \in Threads, NEW ok \in BOOLEAN,
           call \in [Threads -> Call], Finish(t, ok)
    PROVE  /\ call' \in [Threads -> Call]
           /\ call'[t].op = call[t].op
           /\ call'[t].exp = call[t].exp
           /\ call'[t].des = call[t].des
           /\ call'[t].done = TRUE
           /\ call'[t].ok = ok
           /\ \A u \in Threads \ {t} : call'[u] = call[u]
<1> DEFINE c == [call[t] EXCEPT !.done = TRUE, !.ok = ok]
<1>1. call' = [call EXCEPT ![t] = c]
  BY DEF Finish
<1>2. call[t] \in Call
  OBVIOUS
<1>3. c \in Call /\ c.op = call[t].op /\ c.exp = call[t].exp
      /\ c.des = call[t].des /\ c.done = TRUE /\ c.ok = ok
  BY <1>2 DEF Call
<1> HIDE DEF c
<1> QED
  BY <1>1, <1>3

LEMMA WordType ==
    ASSUME LfRefTypeOK
    PROVE  /\ build.low \in {"ref", "ptr"}
           /\ \A w \in {"ref", "ptr"} :
                  /\ mem[w] # Unknown
                  /\ Other(w) \in {"ref", "ptr"} \ {w}
           /\ \A op : First(op) \in {"ref", "ptr"}
           /\ \A op : Second(op) \in {"ref", "ptr"}
           /\ \A op : Second(op) = Other(First(op)) /\ First(op) # Second(op)
<1>1. build.low \in {"ref", "ptr"}
  BY LfRefAssumption DEF LfRefTypeOK, Build
<1>2. mem.ref # Unknown /\ mem.ptr # Unknown
  <2>1. mem \in [ref : RefVals, ptr : PtrVals]
    BY DEF LfRefTypeOK, TypeOK, Pair
  <2>2. mem.ref \in RefVals /\ mem.ptr \in PtrVals
    BY <2>1
  <2>3. \A n \in RefVals : n \in Nat
    BY AtomicRefAssumption DEF RefVals
  <2> QED
    BY <2>2, <2>3, AtomicRefAssumption
<1> QED
  BY <1>1, <1>2 DEF Other, First, Second

LEMMA ReadEffect ==
    ASSUME NEW t \in Threads, NEW w \in {"ref", "ptr"},
           LfRefTypeOK, ReadWord(t, w)
    PROVE  /\ val' \in [Threads -> Seen]
           /\ val'[t][w] = mem[w]
           /\ val'[t][Other(w)] = val[t][Other(w)]
           /\ Reread(val[t], val'[t], mem)
           /\ val' = [val EXCEPT ![t] = val'[t]]
           /\ \A u \in Threads \ {t} : val'[u] = val[u]
<1> DEFINE v == [val[t] EXCEPT ![w] = mem[w]]
<1>1. val' = [val EXCEPT ![t] = v]
  BY DEF ReadWord
<1>2. val[t] \in Seen /\ mem \in Pair /\ val \in [Threads -> Seen]
  BY DEF LfRefTypeOK, TypeOK
<1>3. v \in Seen /\ v[w] = mem[w] /\ v[Other(w)] = val[t][Other(w)]
      /\ Reread(val[t], v, mem)
  <2>1. CASE w = "ref"
    BY <1>2, <2>1 DEF Seen, Words, Pair, Other, Reread
  <2>2. CASE w = "ptr"
    BY <1>2, <2>2 DEF Seen, Words, Pair, Other, Reread
  <2> QED
    BY <2>1, <2>2
<1> HIDE DEF v
<1> QED
  BY <1>1, <1>2, <1>3

\* A step of t leaves the phases of the other threads alone.
LEMMA Frame ==
    ASSUME NEW t \in Threads, Phases, build' = build,
           \A u \in Threads \ {t} : /\ call'[u] = call[u] /\ val'[u] = val[u]
                                    /\ pc'[u] = pc[u] /\ result'[u] = result[u],
           Good(call[t], val[t], pc[t], result[t])'
    PROVE  Phases'
<1> SUFFICES ASSUME NEW u \in Threads \ {t}
             PROVE  Good(call[u], val[u], pc[u], result[u])'
  BY DEF Phases
<1>1. Good(call[u], val[u], pc[u], result[u])
  BY DEF Phases
<1>2. /\ call'[u] = call[u] /\ val'[u] = val[u]
      /\ pc'[u] = pc[u] /\ result'[u] = result[u]
  OBVIOUS
<1> QED
  BY <1>1, <1>2 DEF Good, Loading, Reserved, Failed

\* A step of t that leaves the pair alone keeps the words of the others.
LEMMA FrameCoherent ==
    ASSUME NEW t \in Threads, Coherent, mem' = mem,
           \A u \in Threads \ {t} : /\ call'[u] = call[u] /\ val'[u] = val[u]
                                    /\ pc'[u] = pc[u]
                                    /\ resv'[u] => resv[u],
           resv'[t] => /\ pc'[t] \in {"ld", "sc"} =>
                             val'[t][First(call'[t].op)] = mem[First(call'[t].op)]
                       /\ pc'[t] = "sc" => val'[t] = mem
    PROVE  Coherent'
BY DEF Coherent
-----------------------------------------------------------------------------
\* IInv is an invariant.

LEMMA InitInv == LfRefInit => IInv
<1> SUFFICES ASSUME LfRefInit PROVE IInv
  OBVIOUS
<1>1. /\ NoCall \in Call
      /\ Nothing \in Seen
  BY DEF NoCall, Call, Nothing, Seen, Words
<1>2. LfRefTypeOK
  BY <1>1 DEF LfRefInit, Init, LfRefTypeOK, TypeOK, Steps
<1>3. Coherent
  BY DEF LfRefInit, Coherent
<1>4. Phases
  BY DEF LfRefInit, Init, Phases, Good, Loading, Reserved
<1> QED
  BY <1>2, <1>3, <1>4 DEF IInv

\* Where an operation starts, of which header.
LEMMA StartStep ==
    ASSUME NEW op \in Ops
    PROVE  /\ Start(op) \in {"low", "link", "ll", "any", "cmpxchg", "atomic"}
           /\ Start(op) \in {"low", "any"} => op \in {"load", "add"}
           /\ Start(op) = "low" => op = "load"
           /\ Start(op) = "link" => op = "link"
           /\ Start(op) = "ll" => ~Full /\ op \in Cas \union {"add"}
           /\ Start(op) = "cmpxchg" => op \in Cas
<1>1. CASE Llsc
  <2>1. Start(op) = LlscStart(op)
    BY <1>1 DEF Start, Llsc
  <2> QED
    BY <1>1, <2>1 DEF LlscStart, Full, Ops, Loads, Cas
<1>2. CASE ~Llsc /\ build.cpu = "gcc_x86"
  <2>1. Start(op) = GccX86Start(op)
    BY <1>2 DEF Start, Llsc
  <2> QED
    BY <2>1 DEF GccX86Start, Ops, Loads, Cas
<1>3. CASE ~Llsc /\ build.cpu = "llvm_x86"
  <2>1. Start(op) = LlvmX86Start(op)
    BY <1>3 DEF Start, Llsc
  <2> QED
    BY <2>1 DEF LlvmX86Start, Ops, Loads, Cas
<1>4. CASE ~Llsc /\ build.cpu \notin {"gcc_x86", "llvm_x86"}
  <2>1. Start(op) = C11Start(op)
    BY <1>4 DEF Start, Llsc
  <2> QED
    BY <2>1 DEF C11Start, Ops, Loads, Cas
<1> QED
  BY <1>1, <1>2, <1>3, <1>4

LEMMA CallOpInv ==
    ASSUME IInv, NEW t \in Threads, CallOp(t)
    PROVE  IInv'
<1>0. PICK op \in Ops :
          \E e, d \in Args(op) :
              /\ ~Full => d[Second(op)] = e[Second(op)]
              /\ call' = [call EXCEPT ![t] = NewCall(op, e, d)]
              /\ Goto(t, Start(op))
  BY DEF CallOp
<1>1. PICK e \in Args(op), d \in Args(op) :
          /\ ~Full => d[Second(op)] = e[Second(op)]
          /\ call' = [call EXCEPT ![t] = NewCall(op, e, d)]
          /\ Goto(t, Start(op))
  BY <1>0
<1> DEFINE c == NewCall(op, e, d)
<1>2. /\ c \in Call /\ c.op = op /\ c.exp = e /\ c.des = d
      /\ ~c.done /\ ~c.ok
      /\ op \in Cas => e \in Pair /\ d \in Pair
  BY DEF NewCall, Call, Args
<1> HIDE DEF c
<1>3. call' = [call EXCEPT ![t] = c] /\ pc' = [pc EXCEPT ![t] = Start(op)]
  BY <1>1 DEF c, Goto
<1>4. UNCHANGED <<mem, val, build, resv, result>>
  BY DEF CallOp
<1>5. LfRefTypeOK'
  BY <1>2, <1>3, <1>4, StartStep DEF IInv, LfRefTypeOK, TypeOK, Steps
<1>6. call'[t] = c /\ pc'[t] = Start(op)
      /\ \A u \in Threads \ {t} : call'[u] = call[u] /\ pc'[u] = pc[u]
  BY <1>3 DEF IInv, LfRefTypeOK, TypeOK
<1>7. Good(call[t], val[t], pc[t], result[t])'
  <2>1. OneWord(c) \/ Start(op) # "ll"
    BY <1>1, <1>2, StartStep DEF OneWord
  <2>2. /\ call'[t] = c /\ pc'[t] = Start(op) /\ Pending(c) /\ c.op = op
        /\ op \in Ops /\ op \in Cas => c.exp \in Pair /\ c.des \in Pair
    BY <1>2, <1>6 DEF Pending
  <2>3. Start(op) \notin {"idle", "high", "rest", "ld", "sc", "test", "ret"}
    BY StartStep
  <2>4. Loading(call[t], val[t], pc[t])'
    <3>1. op = "add" /\ Start(op) = "cmpxchg" => FALSE
      BY StartStep DEF Cas, Weak, Strong
    <3> QED
      BY <2>2, <2>3, <3>1, StartStep DEF Loading
  <2>5. Reserved(call[t], val[t], pc[t], result[t])'
    BY <2>1, <2>2, <2>3, StartStep DEF Reserved
  <2> QED
    BY <2>2, <2>3, <2>4, <2>5 DEF Good
<1>8. Phases'
  BY <1>4, <1>6, <1>7, Frame DEF IInv
<1>9. Coherent'
  <2>1. pc'[t] \notin {"ld", "sc"}
    BY <1>6, StartStep
  <2> QED
    BY <1>4, <1>6, <2>1, FrameCoherent DEF IInv
<1> QED
  BY <1>5, <1>8, <1>9 DEF IInv

LEMMA LoadLowInv ==
    ASSUME IInv, NEW t \in Threads, LoadLow(t)
    PROVE  IInv'
<1>1. /\ ReadWord(t, build.low) /\ build.low \in {"ref", "ptr"}
      /\ UNCHANGED <<mem, call, build, resv, result>>
      /\ pc' = [pc EXCEPT ![t] = "high"] /\ pc[t] = "low"
  BY WordType DEF IInv, LoadLow, Goto
<1>2. /\ val' \in [Threads -> Seen] /\ val'[t][build.low] = mem[build.low]
      /\ \A u \in Threads \ {t} : val'[u] = val[u]
  BY <1>1, ReadEffect DEF IInv
<1>3. LfRefTypeOK'
  BY <1>1, <1>2 DEF IInv, LfRefTypeOK, TypeOK, Steps
<1>4. pc'[t] = "high" /\ \A u \in Threads \ {t} : pc'[u] = pc[u]
  BY <1>1 DEF IInv, LfRefTypeOK
<1>5. Good(call[t], val[t], pc[t], result[t])'
  <2>1. Good(call[t], val[t], pc[t], result[t])
    BY DEF IInv, Phases
  <2>2. val'[t][build.low] # Unknown
    BY <1>1, <1>2, WordType DEF IInv
  <2> QED
    BY <1>1, <1>4, <2>1, <2>2 DEF Good, Loading, Reserved
<1>6. Phases'
  BY <1>1, <1>2, <1>4, <1>5, Frame DEF IInv
<1>7. Coherent'
  BY <1>1, <1>2, <1>4, FrameCoherent DEF IInv
<1> QED
  BY <1>3, <1>6, <1>7 DEF IInv

LEMMA LoadHighInv ==
    ASSUME IInv, NEW t \in Threads, LoadHigh(t)
    PROVE  IInv'
<1>1. /\ ReadWord(t, Other(build.low))
      /\ UNCHANGED <<mem, build, resv, result>>
      /\ pc' = [pc EXCEPT ![t] = "ret"] /\ pc[t] = "high"
  BY DEF LoadHigh, Goto
<1>2. /\ val' \in [Threads -> Seen] /\ Known(val'[t])
      /\ \A u \in Threads \ {t} : val'[u] = val[u]
  <2>1. val[t][build.low] # Unknown
    BY <1>1 DEF IInv, Phases, Good, Loading
  <2>2. /\ Other(build.low) \in {"ref", "ptr"} \ {build.low}
        /\ mem[Other(build.low)] # Unknown
        /\ build.low \in {"ref", "ptr"}
        /\ Other(Other(build.low)) = build.low
    BY WordType DEF IInv, Other
  <2>3. /\ val' \in [Threads -> Seen]
        /\ val'[t][Other(build.low)] = mem[Other(build.low)]
        /\ val'[t][build.low] = val[t][build.low]
        /\ \A u \in Threads \ {t} : val'[u] = val[u]
    BY <1>1, <2>2, ReadEffect DEF IInv
  <2>4. val'[t][build.low] # Unknown /\ val'[t][Other(build.low)] # Unknown
    BY <2>1, <2>2, <2>3
  <2>5. Known(val'[t])
    BY <2>2, <2>4 DEF Known
  <2> QED
    BY <2>3, <2>5
<1>3. /\ call' \in [Threads -> Call]
      /\ \A u \in Threads \ {t} : call'[u] = call[u]
      /\ call'[t].done
      /\ call'[t].op = call[t].op /\ call'[t].op # "none"
      /\ call'[t].exp = call[t].exp /\ call'[t].des = call[t].des
  <2>1. Good(call[t], val[t], pc[t], result[t])
    BY DEF IInv, Phases
  <2>2. CASE call[t].op \in Loads
    <3>1. Finish(t, TRUE)
      BY <2>2 DEF LoadHigh
    <3> QED
      BY <1>1, <2>1, <3>1, FinishEffect DEF IInv, LfRefTypeOK, TypeOK, Good, Ops, Cas, Weak, Strong, Loads
  <2>3. CASE call[t].op \notin Loads
    BY <1>1, <2>1, <2>3 DEF LoadHigh, IInv, LfRefTypeOK, TypeOK, Good, Loading,
       Reloading, Loads, Weak
  <2> QED
    BY <2>2, <2>3
<1>4. LfRefTypeOK'
  BY <1>1, <1>2, <1>3 DEF IInv, LfRefTypeOK, TypeOK, Steps
<1>5. pc'[t] = "ret" /\ \A u \in Threads \ {t} : pc'[u] = pc[u]
  BY <1>1 DEF IInv, LfRefTypeOK
<1>6. Good(call[t], val[t], pc[t], result[t])'
  <2>1. Good(call[t], val[t], pc[t], result[t])
    BY DEF IInv, Phases
  <2> QED
    BY <1>1, <1>2, <1>3, <1>5, <2>1 DEF Good, Loading, Reserved, Complete, Known
<1>7. Phases'
  BY <1>1, <1>2, <1>3, <1>5, <1>6, Frame DEF IInv
<1>8. Coherent'
  BY <1>1, <1>2, <1>3, <1>5, FrameCoherent DEF IInv
<1> QED
  BY <1>4, <1>7, <1>8 DEF IInv
LEMMA LoadAnyInv ==
    ASSUME IInv, NEW t \in Threads, LoadAny(t)
    PROVE  IInv'
<1>1. PICK w \in {"ref", "ptr"} : ReadWord(t, w)
  BY DEF LoadAny
<1>2. /\ UNCHANGED <<mem, call, build, resv, result>>
      /\ pc' = [pc EXCEPT ![t] = "rest"] /\ pc[t] = "any"
  BY DEF LoadAny, Goto
<1>3. /\ val' \in [Threads -> Seen] /\ val'[t][w] = mem[w]
      /\ \A u \in Threads \ {t} : val'[u] = val[u]
  BY <1>1, ReadEffect DEF IInv
<1>4. LfRefTypeOK'
  BY <1>2, <1>3 DEF IInv, LfRefTypeOK, TypeOK, Steps
<1>5. pc'[t] = "rest" /\ \A u \in Threads \ {t} : pc'[u] = pc[u]
  BY <1>2 DEF IInv, LfRefTypeOK
<1>6. Good(call[t], val[t], pc[t], result[t])'
  <2>1. Good(call[t], val[t], pc[t], result[t])
    BY DEF IInv, Phases
  <2>2. val'[t].ref # Unknown \/ val'[t].ptr # Unknown
    BY <1>3, WordType DEF IInv
  <2> QED
    BY <1>2, <1>5, <2>1, <2>2 DEF Good, Loading, Reserved
<1>7. Phases'
  BY <1>2, <1>3, <1>5, <1>6, Frame DEF IInv
<1>8. Coherent'
  BY <1>2, <1>3, <1>5, FrameCoherent DEF IInv
<1> QED
  BY <1>4, <1>7, <1>8 DEF IInv

LEMMA LoadRestInv ==
    ASSUME IInv, NEW t \in Threads, LoadRest(t)
    PROVE  IInv'
<1> DEFINE w == IF val[t].ref = Unknown THEN "ref" ELSE "ptr"
<1>1. /\ ReadWord(t, w) /\ w \in {"ref", "ptr"}
      /\ UNCHANGED <<mem, build, resv, result>>
      /\ pc[t] = "rest"
  BY DEF LoadRest
<1>2. Good(call[t], val[t], pc[t], result[t])
  BY DEF IInv, Phases
<1>3. /\ val' \in [Threads -> Seen] /\ Known(val'[t])
      /\ \A u \in Threads \ {t} : val'[u] = val[u]
  <2>1. val[t][Other(w)] # Unknown
    BY <1>1, <1>2 DEF Good, Loading, Other
  <2>2. w \in {"ref", "ptr"}
    OBVIOUS
  <2> HIDE DEF w
  <2>3. /\ val' \in [Threads -> Seen]
        /\ val'[t][w] = mem[w] /\ val'[t][Other(w)] = val[t][Other(w)]
        /\ \A u \in Threads \ {t} : val'[u] = val[u]
    BY <1>1, <2>2, ReadEffect DEF IInv
  <2>4. val'[t][w] # Unknown /\ val'[t][Other(w)] # Unknown
    BY <2>1, <2>2, <2>3, WordType DEF IInv
  <2>5. Known(val'[t])
    BY <2>2, <2>4 DEF Known, Other
  <2> QED
    BY <2>3, <2>5
<1> HIDE DEF w
<1>4. CASE call[t].op = "load"
  <2>1. Finish(t, TRUE) /\ pc' = [pc EXCEPT ![t] = "ret"]
    BY <1>4 DEF LoadRest, Goto
  <2>2. /\ call' \in [Threads -> Call]
        /\ \A u \in Threads \ {t} : call'[u] = call[u]
        /\ call'[t].done /\ call'[t].op = "load"
    BY <1>4, <2>1, FinishEffect DEF IInv, LfRefTypeOK, TypeOK
  <2>3. LfRefTypeOK'
    BY <1>1, <1>3, <2>1, <2>2 DEF IInv, LfRefTypeOK, TypeOK, Steps
  <2>4. pc'[t] = "ret" /\ \A u \in Threads \ {t} : pc'[u] = pc[u]
    BY <2>1 DEF IInv, LfRefTypeOK
  <2>5. Good(call[t], val[t], pc[t], result[t])'
    BY <1>3, <2>2, <2>4 DEF Good, Loading, Reserved, Complete, Known, Ops, Cas,
       Weak, Strong, Loads
  <2>6. Phases'
    BY <1>1, <1>3, <2>2, <2>4, <2>5, Frame DEF IInv
  <2>7. Coherent'
    BY <1>1, <1>3, <2>2, <2>4, FrameCoherent DEF IInv
  <2> QED
    BY <2>3, <2>6, <2>7 DEF IInv
<1>5. CASE call[t].op # "load"
  <2>1. call' = call /\ pc' = [pc EXCEPT ![t] = "cmpxchg"]
    BY <1>5 DEF LoadRest, Goto
  <2>2. LfRefTypeOK'
    BY <1>1, <1>3, <2>1 DEF IInv, LfRefTypeOK, TypeOK, Steps
  <2>3. pc'[t] = "cmpxchg" /\ \A u \in Threads \ {t} : pc'[u] = pc[u]
    BY <2>1 DEF IInv, LfRefTypeOK
  <2>4. Good(call[t], val[t], pc[t], result[t])'
    BY <1>1, <1>2, <1>3, <1>5, <2>1, <2>3 DEF Good, Loading, Reserved
  <2>5. Phases'
    BY <1>1, <1>3, <2>1, <2>3, <2>4, Frame DEF IInv
  <2>6. Coherent'
    BY <1>1, <1>3, <2>1, <2>3, FrameCoherent DEF IInv
  <2> QED
    BY <2>2, <2>5, <2>6 DEF IInv
<1> QED
  BY <1>4, <1>5

LEMMA LinkInv ==
    ASSUME IInv, NEW t \in Threads, Link(t)
    PROVE  IInv'
<1>1. /\ Linked \in {"ref", "ptr"}
      /\ mem[Linked] \in Words /\ mem[Linked] # Unknown
  <2>1. Linked \in {"ref", "ptr"}
    BY WordType DEF IInv, Linked
  <2>2. mem.ref \in Words /\ mem.ptr \in Words
    BY DEF IInv, LfRefTypeOK, TypeOK, Pair, Words
  <2> QED
    BY <2>1, <2>2, WordType DEF IInv
<1>2. /\ val' = [val EXCEPT ![t].ptr = mem[Linked]] /\ Finish(t, TRUE)
      /\ UNCHANGED <<mem, build, resv, result>>
      /\ pc' = [pc EXCEPT ![t] = "ret"] /\ pc[t] = "link"
  BY DEF Link, Goto
<1>3. /\ val' \in [Threads -> Seen] /\ val'[t].ptr # Unknown
      /\ \A u \in Threads \ {t} : val'[u] = val[u]
  <2>1. val[t] \in Seen /\ val \in [Threads -> Seen]
    BY DEF IInv, LfRefTypeOK, TypeOK
  <2>2. [val[t] EXCEPT !.ptr = mem[Linked]] \in Seen
    BY <1>1, <2>1 DEF Seen
  <2> QED
    BY <1>1, <1>2, <2>1, <2>2 DEF Seen
<1>4. call[t].op = "link"
  BY <1>2 DEF IInv, Phases, Good, Loading
<1>5. /\ call' \in [Threads -> Call]
      /\ \A u \in Threads \ {t} : call'[u] = call[u]
      /\ call'[t].done /\ call'[t].op = "link"
  BY <1>2, <1>4, FinishEffect DEF IInv, LfRefTypeOK, TypeOK
<1>6. LfRefTypeOK'
  BY <1>2, <1>3, <1>5 DEF IInv, LfRefTypeOK, TypeOK, Steps
<1>7. pc'[t] = "ret" /\ \A u \in Threads \ {t} : pc'[u] = pc[u]
  BY <1>2 DEF IInv, LfRefTypeOK
<1>8. Good(call[t], val[t], pc[t], result[t])'
  BY <1>3, <1>5, <1>7 DEF Good, Loading, Reserved, Complete, Ops, Cas, Weak,
     Strong, Loads
<1>9. Phases'
  BY <1>2, <1>3, <1>5, <1>7, <1>8, Frame DEF IInv
<1>10. Coherent'
  BY <1>2, <1>3, <1>5, <1>7, FrameCoherent DEF IInv
<1> QED
  BY <1>6, <1>9, <1>10 DEF IInv
LEMMA PairType ==
    ASSUME NEW e \in Pair
    PROVE  /\ e.ref \in Nat /\ e.ptr \in Nat
           /\ e.ref # Unknown /\ e.ptr # Unknown
           /\ e \in Seen
           /\ [e EXCEPT !.ref = (@ + 1) % RefMod] \in Pair
           /\ \A w \in {"ref", "ptr"}, d \in Pair : [e EXCEPT ![w] = d[w]] \in Pair
<1>1. \A n \in RefVals : n \in Nat /\ (n + 1) % RefMod \in RefVals
  BY AtomicRefAssumption DEF RefVals
<1>2. e.ref \in RefVals /\ e.ptr \in PtrVals
  BY DEF Pair
<1>3. e.ref \in Nat /\ e.ptr \in Nat
  BY <1>1, <1>2, AtomicRefAssumption
<1>4. e \in Seen
  BY DEF Pair, Seen, Words
<1>5. [e EXCEPT !.ref = (@ + 1) % RefMod] \in Pair
  BY <1>1, <1>2 DEF Pair
<1>6. ASSUME NEW w \in {"ref", "ptr"}, NEW d \in Pair
      PROVE  [e EXCEPT ![w] = d[w]] \in Pair
  BY <1>6 DEF Pair
<1> QED
  BY <1>3, <1>4, <1>5, <1>6, AtomicRefAssumption

LEMMA PairEqual ==
    ASSUME NEW v \in Seen, NEW e \in Pair, v.ref = e.ref, v.ptr = e.ptr
    PROVE  v = e
BY DEF Seen, Words, Pair

LEMMA BothWords ==
    ASSUME NEW v \in Seen, NEW e \in Pair, NEW op,
           v[First(op)] = e[First(op)], v[Second(op)] = e[Second(op)]
    PROVE  v = e
<1>1. v.ref = e.ref /\ v.ptr = e.ptr
  BY DEF First, Second, Other
<1> QED
  BY <1>1, PairEqual

LEMMA LoadLinkedInv ==
    ASSUME IInv, NEW t \in Threads, LoadLinked(t)
    PROVE  IInv'
<1> DEFINE op == call[t].op
           settled == op \in Strong /\ mem[First(op)] # call[t].exp[First(op)]
<1>1. /\ ReadWord(t, First(op)) /\ First(op) \in {"ref", "ptr"}
      /\ UNCHANGED <<mem, build, result>>
      /\ resv' = [resv EXCEPT ![t] = TRUE]
      /\ pc' = [pc EXCEPT ![t] = "ld"] /\ pc[t] = "ll"
  BY WordType DEF IInv, LoadLinked, Goto
<1>2. /\ op \in Ops /\ op \in Cas \union {"add"} /\ OneWord(call[t])
      /\ ~call[t].done /\ ~call[t].ok
      /\ op \in Cas => call[t].exp \in Pair /\ call[t].des \in Pair
  BY <1>1 DEF IInv, Phases, Good, Reserved, Pending
<1>3. /\ val' \in [Threads -> Seen]
      /\ val'[t][First(op)] = mem[First(op)] /\ mem[First(op)] # Unknown
      /\ \A u \in Threads \ {t} : val'[u] = val[u]
  BY <1>1, ReadEffect, WordType DEF IInv
<1>4. /\ call' \in [Threads -> Call]
      /\ \A u \in Threads \ {t} : call'[u] = call[u]
      /\ call'[t].op = op /\ call'[t].exp = call[t].exp
      /\ call'[t].des = call[t].des
      /\ ~call'[t].ok /\ (call'[t].done <=> settled)
  <2>1. CASE settled
    <3>1. Finish(t, FALSE)
      BY <2>1 DEF LoadLinked
    <3> QED
      BY <2>1, <3>1, FinishEffect DEF IInv, LfRefTypeOK, TypeOK
  <2>2. CASE ~settled
    <3>1. call' = call
      BY <2>2 DEF LoadLinked
    <3> QED
      BY <1>2, <2>2, <3>1 DEF IInv, LfRefTypeOK, TypeOK
  <2> QED
    BY <2>1, <2>2
<1> HIDE DEF op
<1>5. LfRefTypeOK'
  BY <1>1, <1>3, <1>4 DEF IInv, LfRefTypeOK, TypeOK, Steps
<1>6. /\ pc'[t] = "ld" /\ \A u \in Threads \ {t} : pc'[u] = pc[u]
      /\ \A u \in Threads \ {t} : resv'[u] = resv[u]
  BY <1>1 DEF IInv, LfRefTypeOK
<1>7. Good(call[t], val[t], pc[t], result[t])'
  <2>1. OneWord(call'[t])
    BY <1>2, <1>4 DEF OneWord, op
  <2>2. Reserved(call[t], val[t], pc[t], result[t])'
    BY <1>2, <1>3, <1>4, <1>6, <2>1 DEF Reserved
  <2> QED
    BY <1>2, <1>4, <1>6, <2>2 DEF Good, Loading
<1>8. Phases'
  BY <1>1, <1>3, <1>4, <1>6, <1>7, Frame DEF IInv
<1>9. Coherent'
  BY <1>1, <1>3, <1>4, <1>6, FrameCoherent DEF IInv
<1> QED
  BY <1>5, <1>8, <1>9 DEF IInv

LEMMA LoadSecondInv ==
    ASSUME IInv, NEW t \in Threads, LoadSecond(t)
    PROVE  IInv'
<1> DEFINE c == call[t]
           op == call[t].op
           same == val[t][First(op)] = c.exp[First(op)]
           both == same /\ mem[Second(op)] = c.exp[Second(op)]
           r == IF build.cpu = "mips" /\ op \in Cas /\ same
                THEN c.des[First(op)] ELSE 0
<1>1. /\ ReadWord(t, Second(op)) /\ Second(op) \in {"ref", "ptr"}
      /\ UNCHANGED <<mem, build, resv>>
      /\ pc[t] = "ld"
      /\ pc' = [pc EXCEPT ![t] = IF op = "add" \/ both THEN "sc" ELSE "test"]
      /\ result' = [result EXCEPT ![t] = r]
  BY WordType DEF IInv, LoadSecond, Goto
<1>2. /\ op \in Ops /\ op \in Cas \union {"add"} /\ OneWord(c)
      /\ ~c.ok /\ val[t][First(op)] # Unknown
      /\ op \in Strong => (c.done <=> ~same)
      /\ op \notin Strong => ~c.done
      /\ op \in Cas => c.exp \in Pair /\ c.des \in Pair
  BY <1>1 DEF IInv, Phases, Good, Reserved
<1>3. /\ val' \in [Threads -> Seen]
      /\ val'[t][Second(op)] = mem[Second(op)]
      /\ val'[t][First(op)] = val[t][First(op)]
      /\ Known(val'[t])
      /\ \A u \in Threads \ {t} : val'[u] = val[u]
  <2>1. Other(Second(op)) = First(op) /\ mem[Second(op)] # Unknown
    BY <1>1, WordType DEF IInv, First, Second, Other
  <2>2. /\ val' \in [Threads -> Seen]
        /\ val'[t][Second(op)] = mem[Second(op)]
        /\ val'[t][First(op)] = val[t][First(op)]
        /\ \A u \in Threads \ {t} : val'[u] = val[u]
    BY <1>1, <2>1, ReadEffect DEF IInv
  <2>3. Known(val'[t])
    BY <1>2, <2>1, <2>2 DEF Known, First, Second, Other
  <2> QED
    BY <2>2, <2>3
<1>4. /\ call' \in [Threads -> Call]
      /\ \A u \in Threads \ {t} : call'[u] = call[u]
      /\ call'[t].op = op /\ call'[t].exp = c.exp /\ call'[t].des = c.des
      /\ ~call'[t].ok /\ (call'[t].done <=> op \in Strong /\ ~both)
  <2>1. CASE op \in Strong /\ ~both
    <3>1. Finish(t, FALSE)
      BY <2>1 DEF LoadSecond
    <3> QED
      BY <2>1, <3>1, FinishEffect DEF IInv, LfRefTypeOK, TypeOK
  <2>2. CASE ~(op \in Strong /\ ~both)
    <3>1. call' = call
      BY <2>2 DEF LoadSecond
    <3> QED
      BY <1>2, <2>2, <3>1 DEF IInv, LfRefTypeOK, TypeOK
  <2> QED
    BY <2>1, <2>2
<1>5. op \in Cas => (both <=> val'[t] = c.exp)
  <2>1. First(op) \in {"ref", "ptr"} /\ Second(op) \in {"ref", "ptr"}
    BY WordType DEF IInv
  <2>2. ASSUME op \in Cas, both PROVE val'[t] = c.exp
    <3>1. /\ val'[t] \in Seen /\ c.exp \in Pair
          /\ val'[t][First(op)] = c.exp[First(op)]
          /\ val'[t][Second(op)] = c.exp[Second(op)]
      BY <1>2, <1>3, <2>2
    <3> HIDE DEF op, c
    <3> QED
      BY <3>1, BothWords
  <2>3. ASSUME val'[t] = c.exp PROVE both
    BY <1>3, <2>3
  <2> QED
    BY <2>2, <2>3
<1>6. r \in Nat
  <2>1. ASSUME op \in Cas PROVE c.des[First(op)] \in Nat
    <3>1. c.des.ref \in Nat /\ c.des.ptr \in Nat
      BY <1>2, <2>1, PairType
    <3> QED
      BY <3>1 DEF First
  <2> QED
    BY <2>1
<1>7. r # 0 => build.cpu = "mips" /\ same
  OBVIOUS
<1> HIDE DEF op, c, r
<1>8. LfRefTypeOK'
  BY <1>1, <1>3, <1>4, <1>6 DEF IInv, LfRefTypeOK, TypeOK, Steps
<1>9. /\ pc'[t] = IF op = "add" \/ both THEN "sc" ELSE "test"
      /\ result'[t] = r
      /\ \A u \in Threads \ {t} : pc'[u] = pc[u] /\ result'[u] = result[u]
  BY <1>1 DEF IInv, LfRefTypeOK
<1>10. Good(call[t], val[t], pc[t], result[t])'
  <2>1. OneWord(call'[t])
    BY <1>2, <1>4 DEF OneWord, op, c
  <2>2. CASE op = "add" \/ both
    <3>1. pc'[t] = "sc"
      BY <1>9, <2>2
    <3>2. Pending(call'[t])
      BY <1>4, <2>2 DEF Pending, Strong
    <3>3. op \in Cas => val'[t] = c.exp
      BY <1>5, <2>2 DEF Cas, Weak, Strong
    <3>4. Reserved(call[t], val[t], pc[t], result[t])'
      BY <1>2, <1>3, <1>4, <2>1, <3>1, <3>2, <3>3 DEF Reserved
    <3> QED
      BY <1>2, <1>4, <3>1, <3>4 DEF Good, Loading
  <2>3. CASE op # "add" /\ ~both
    <3>1. pc'[t] = "test" /\ op \in Cas
      BY <1>2, <1>9, <2>3
    <3>2. val'[t] # c.exp
      BY <1>5, <2>3, <3>1
    <3>3. Failed(call[t], val[t], result[t])'
      <4>1. CASE op \in Strong
        BY <1>4, <2>3, <3>2, <4>1 DEF Failed
      <4>2. CASE op \in Weak
        <5>1. Pending(call'[t])
          BY <1>4, <4>2 DEF Pending, Weak, Strong
        <5>2. r # 0 => val'[t][Second(op)] # c.exp[Second(op)]
          BY <1>3, <1>7, <2>3
        <5> QED
          BY <1>1, <1>4, <1>7, <1>9, <4>2, <5>1, <5>2 DEF Failed
      <4> QED
        BY <3>1, <4>1, <4>2 DEF Cas
    <3>4. Reserved(call[t], val[t], pc[t], result[t])'
      BY <1>3, <1>4, <3>1, <3>3 DEF Reserved
    <3> QED
      BY <1>2, <1>4, <3>1, <3>4 DEF Good, Loading
  <2> QED
    BY <2>2, <2>3
<1>11. Phases'
  BY <1>1, <1>3, <1>4, <1>9, <1>10, Frame DEF IInv
<1>12. Coherent'
  <2>1. resv[t] => val'[t] = mem
    <3> SUFFICES ASSUME resv[t] PROVE val'[t] = mem
      OBVIOUS
    <3>1. val[t][First(op)] = mem[First(op)]
      BY <1>1 DEF IInv, Coherent, op
    <3>2. val'[t] \in Seen /\ mem \in Pair
      BY <1>3 DEF IInv, LfRefTypeOK, TypeOK
    <3> QED
      BY <1>3, <3>1, <3>2, BothWords
  <2> QED
    BY <1>1, <1>3, <1>4, <1>9, <2>1, FrameCoherent DEF IInv
<1> QED
  BY <1>8, <1>11, <1>12 DEF IInv
\* A store ends every reservation, so that nothing has to be coherent.
LEMMA StoreCoherent ==
    ASSUME NEW p, Store(p) PROVE Coherent'
BY DEF Store, Coherent

LEMMA StoreConditionalInv ==
    ASSUME IInv, NEW t \in Threads, StoreConditional(t)
    PROVE  IInv'
<1> DEFINE op == call[t].op
<1>1. /\ Store(Desired(t)) /\ Finish(t, TRUE)
      /\ UNCHANGED <<val, build>>
      /\ pc[t] = "sc" /\ resv[t]
      /\ pc' = [pc EXCEPT ![t] = IF op = "add" THEN "ret" ELSE "test"]
      /\ result' = [result EXCEPT ![t] = 1]
  BY DEF StoreConditional, Goto
<1>2. /\ op \in Ops /\ op \in Cas \union {"add"}
      /\ Known(val[t])
      /\ op \in Cas => val[t] = call[t].exp
      /\ op \in Cas => call[t].exp \in Pair /\ call[t].des \in Pair
  BY <1>1 DEF IInv, Phases, Good, Reserved
<1>3. val[t] = mem /\ mem \in Pair
  BY <1>1 DEF IInv, Coherent, LfRefTypeOK, TypeOK
<1>4. Desired(t) \in Pair
  <2>1. CASE op = "add"
    <3>1. Desired(t) = [mem EXCEPT !.ref = (@ + 1) % RefMod]
      BY <1>3, <2>1 DEF Desired
    <3> QED
      BY <1>3, <3>1, PairType
  <2>2. CASE op # "add"
    <3>1. /\ Desired(t) = [mem EXCEPT ![First(op)] = call[t].des[First(op)]]
          /\ call[t].des \in Pair /\ First(op) \in {"ref", "ptr"}
      BY <1>2, <2>2, WordType DEF Desired, IInv
    <3>2. \A w \in {"ref", "ptr"}, d \in Pair : [mem EXCEPT ![w] = d[w]] \in Pair
      BY <1>3, PairType
    <3> QED
      BY <3>1, <3>2, Zenon
  <2> QED
    BY <2>1, <2>2
<1>5. mem' \in Pair /\ resv' \in [Threads -> BOOLEAN]
  BY <1>1, <1>4 DEF Store
<1>6. /\ call' \in [Threads -> Call]
      /\ \A u \in Threads \ {t} : call'[u] = call[u]
      /\ call'[t].op = op /\ call'[t].exp = call[t].exp
      /\ call'[t].des = call[t].des
      /\ call'[t].ok /\ call'[t].done
  BY <1>1, FinishEffect DEF IInv, LfRefTypeOK, TypeOK
<1> HIDE DEF op
<1>7. LfRefTypeOK'
  BY <1>1, <1>5, <1>6 DEF IInv, LfRefTypeOK, TypeOK, Steps
<1>8. /\ pc'[t] = IF op = "add" THEN "ret" ELSE "test"
      /\ result'[t] = 1
      /\ \A u \in Threads \ {t} : pc'[u] = pc[u] /\ result'[u] = result[u]
  BY <1>1 DEF IInv, LfRefTypeOK
<1>9. Good(call[t], val[t], pc[t], result[t])'
  <2>1. CASE op = "add"
    <3>1. pc'[t] = "ret" /\ Complete(call'[t], val'[t])
      BY <1>1, <1>2, <1>8, <2>1 DEF Complete, Known
    <3>2. op \notin Cas
      BY <2>1 DEF Cas, Weak, Strong
    <3> QED
      BY <1>2, <1>6, <3>1, <3>2 DEF Good, Loading, Reserved
  <2>2. CASE op # "add"
    <3>1. pc'[t] = "test" /\ op \in Cas
      BY <1>2, <1>8, <2>2
    <3>2. Reserved(call[t], val[t], pc[t], result[t])'
      BY <1>1, <1>2, <1>6, <1>8, <3>1 DEF Reserved
    <3> QED
      BY <1>2, <1>6, <3>1, <3>2 DEF Good, Loading
  <2> QED
    BY <2>1, <2>2
<1>10. Phases'
  BY <1>1, <1>6, <1>8, <1>9, Frame DEF IInv
<1> QED
  BY <1>1, <1>7, <1>10, StoreCoherent DEF IInv

LEMMA ScFailsInv ==
    ASSUME IInv, NEW t \in Threads, ScFails(t)
    PROVE  IInv'
<1> DEFINE op == call[t].op
<1>1. /\ UNCHANGED <<mem, call, val, build>>
      /\ pc[t] = "sc"
      /\ resv' = [resv EXCEPT ![t] = FALSE]
      /\ pc' = [pc EXCEPT ![t] = IF op \in Weak THEN "test" ELSE "ll"]
      /\ result' = [result EXCEPT ![t] = 0]
  BY DEF ScFails, Goto
<1>2. /\ op \in Ops /\ op \in Cas \union {"add"} /\ OneWord(call[t])
      /\ Pending(call[t]) /\ Known(val[t])
      /\ op \in Cas => call[t].exp \in Pair /\ call[t].des \in Pair
  BY <1>1 DEF IInv, Phases, Good, Reserved
<1> HIDE DEF op
<1>3. LfRefTypeOK'
  BY <1>1 DEF IInv, LfRefTypeOK, TypeOK, Steps
<1>4. /\ pc'[t] = IF op \in Weak THEN "test" ELSE "ll"
      /\ result'[t] = 0 /\ ~resv'[t]
      /\ \A u \in Threads \ {t} : /\ pc'[u] = pc[u] /\ result'[u] = result[u]
                                   /\ resv'[u] = resv[u]
  BY <1>1 DEF IInv, LfRefTypeOK
<1>5. Good(call[t], val[t], pc[t], result[t])'
  <2>1. CASE op \in Weak
    <3>1. pc'[t] = "test" /\ op \in Cas
      BY <1>4, <2>1 DEF Cas
    <3>2. Failed(call[t], val[t], result[t])'
      BY <1>1, <1>2, <1>4, <2>1 DEF Failed, op
    <3>3. Reserved(call[t], val[t], pc[t], result[t])'
      BY <1>1, <1>2, <3>1, <3>2 DEF Reserved, op
    <3> QED
      BY <1>1, <1>2, <3>1, <3>3 DEF Good, Loading, op
  <2>2. CASE op \notin Weak
    <3>1. pc'[t] = "ll"
      BY <1>4, <2>2
    <3>2. Reserved(call[t], val[t], pc[t], result[t])'
      BY <1>1, <1>2, <3>1 DEF Reserved, op
    <3> QED
      BY <1>1, <1>2, <3>1, <3>2 DEF Good, Loading, op
  <2> QED
    BY <2>1, <2>2
<1>6. Phases'
  BY <1>1, <1>4, <1>5, Frame DEF IInv
<1>7. Coherent'
  BY <1>1, <1>4, FrameCoherent DEF IInv
<1> QED
  BY <1>3, <1>6, <1>7 DEF IInv

\* The value that a compare-and-swap returns is what it did.
LEMMA SuccessTrue ==
    ASSUME IInv, NEW t \in Threads, pc[t] = "test"
    PROVE  /\ Success(t) \in BOOLEAN
           /\ Success(t) => call[t].done /\ call[t].ok
           /\ ~Success(t) => ~call[t].ok
           /\ ~Success(t) /\ call[t].op \in Strong => call[t].done
           /\ ~Success(t) /\ call[t].op \in Weak => ~call[t].done
<1>1. /\ call[t].op \in Cas
      /\ \/ /\ call[t].done /\ call[t].ok /\ val[t] = call[t].exp
            /\ result[t] # 0
         \/ Failed(call[t], val[t], result[t])
  BY DEF IInv, Phases, Good, Reserved
<1>2. Success(t) \in BOOLEAN
  BY DEF Success
<1>3. call[t].op \in Strong <=> call[t].op \notin Weak
  BY <1>1 DEF Cas, Strong, Weak
<1>4. CASE call[t].op \in Strong
  BY <1>1, <1>2, <1>3, <1>4 DEF Success, Failed
<1>5. CASE call[t].op \in Weak
  BY <1>1, <1>2, <1>3, <1>5 DEF Success, Failed, Pending
<1> QED
  BY <1>2, <1>3, <1>4, <1>5

LEMMA TestInv ==
    ASSUME IInv, NEW t \in Threads, Test(t)
    PROVE  IInv'
<1> DEFINE op == call[t].op
           again == op \in Weak /\ ~Success(t)
<1>1. /\ UNCHANGED <<mem, val, build, resv, result>>
      /\ pc[t] = "test"
      /\ pc' = [pc EXCEPT ![t] = IF again THEN "low" ELSE "ret"]
      /\ Finish(t, Success(t))
  BY DEF Test, Goto
<1>2. /\ op \in Ops /\ op \in Cas /\ Known(val[t])
      /\ call[t].exp \in Pair /\ call[t].des \in Pair
  BY <1>1 DEF IInv, Phases, Good, Reserved
<1>3. Success(t) \in BOOLEAN
  BY DEF Success
<1>4. /\ call' \in [Threads -> Call]
      /\ \A u \in Threads \ {t} : call'[u] = call[u]
      /\ call'[t].op = op /\ call'[t].exp = call[t].exp
      /\ call'[t].des = call[t].des
      /\ call'[t].done /\ call'[t].ok = Success(t)
  BY <1>1, <1>3, FinishEffect DEF IInv, LfRefTypeOK, TypeOK
<1> HIDE DEF op
<1>5. LfRefTypeOK'
  BY <1>1, <1>4 DEF IInv, LfRefTypeOK, TypeOK, Steps
<1>6. /\ pc'[t] = IF again THEN "low" ELSE "ret"
      /\ \A u \in Threads \ {t} : pc'[u] = pc[u]
  BY <1>1 DEF IInv, LfRefTypeOK
<1>7. Good(call[t], val[t], pc[t], result[t])'
  <2>1. CASE again
    <3>1. pc'[t] = "low"
      BY <1>6, <2>1
    <3>2. Reloading(call'[t])
      BY <1>4, <2>1 DEF Reloading
    <3> QED
      BY <1>2, <1>4, <3>1, <3>2 DEF Good, Loading, Reserved
  <2>2. CASE ~again
    <3>1. pc'[t] = "ret" /\ Complete(call'[t], val'[t])
      BY <1>1, <1>2, <1>6, <2>2 DEF Complete, Known
    <3> QED
      BY <1>2, <1>4, <3>1 DEF Good, Loading, Reserved
  <2> QED
    BY <2>1, <2>2
<1>8. Phases'
  BY <1>1, <1>4, <1>6, <1>7, Frame DEF IInv
<1>9. Coherent'
  BY <1>1, <1>4, <1>6, FrameCoherent DEF IInv
<1> QED
  BY <1>5, <1>8, <1>9 DEF IInv
\* A call that ends with a step on the whole pair.
LEMMA EndInv ==
    ASSUME IInv, NEW t \in Threads, NEW ok \in BOOLEAN,
           pc[t] # "idle",
           Finish(t, ok), Goto(t, "ret"),
           val' = [val EXCEPT ![t] = mem],
           UNCHANGED <<build, result>>,
           UNCHANGED <<mem, resv>> \/ \E p \in Pair : Store(p)
    PROVE  IInv'
<1>1. /\ call[t].op \in Ops
      /\ call[t].op \in Cas => call[t].exp \in Pair /\ call[t].des \in Pair
  BY DEF IInv, Phases, Good
<1>2. mem \in Pair /\ mem \in Seen /\ mem.ref # Unknown /\ mem.ptr # Unknown
  BY PairType DEF IInv, LfRefTypeOK, TypeOK
<1>3. mem' \in Pair /\ resv' \in [Threads -> BOOLEAN]
  BY DEF Store, IInv, LfRefTypeOK, TypeOK
<1>4. /\ call' \in [Threads -> Call]
      /\ \A u \in Threads \ {t} : call'[u] = call[u]
      /\ call'[t].op = call[t].op /\ call'[t].exp = call[t].exp
      /\ call'[t].des = call[t].des /\ call'[t].done
  BY FinishEffect DEF IInv, LfRefTypeOK, TypeOK
<1>5. /\ pc' \in [Threads -> Steps] /\ pc'[t] = "ret"
      /\ val' \in [Threads -> Seen] /\ val'[t] = mem
      /\ \A u \in Threads \ {t} : pc'[u] = pc[u] /\ val'[u] = val[u]
  BY <1>2 DEF Goto, IInv, LfRefTypeOK, TypeOK, Steps
<1>6. LfRefTypeOK'
  BY <1>3, <1>4, <1>5 DEF IInv, LfRefTypeOK, TypeOK
<1>7. Good(call[t], val[t], pc[t], result[t])'
  BY <1>1, <1>2, <1>4, <1>5 DEF Good, Loading, Reserved, Complete
<1>8. Phases'
  BY <1>4, <1>5, <1>7, Frame DEF IInv
<1>9. Coherent'
  <2>1. CASE UNCHANGED <<mem, resv>>
    BY <1>4, <1>5, <2>1, FrameCoherent DEF IInv
  <2>2. CASE \E p \in Pair : Store(p)
    BY <2>2, StoreCoherent
  <2> QED
    BY <2>1, <2>2
<1> QED
  BY <1>6, <1>8, <1>9 DEF IInv

LEMMA CmpxchgInv ==
    ASSUME IInv, NEW t \in Threads, Cmpxchg(t)
    PROVE  IInv'
<1> DEFINE op == call[t].op
           exp == IF op = "add" THEN val[t] ELSE call[t].exp
           des == IF op = "add" THEN [exp EXCEPT !.ref = (@ + 1) % RefMod]
                  ELSE call[t].des
<1>1. /\ pc[t] = "cmpxchg"
      /\ val' = [val EXCEPT ![t] = mem]
      /\ UNCHANGED <<build, result>>
  BY DEF Cmpxchg
<1>2. /\ op \in Ops /\ op \in Cas \union {"add"} /\ Pending(call[t])
      /\ op \in Cas => call[t].exp \in Pair /\ call[t].des \in Pair
  BY <1>1 DEF IInv, Phases, Good, Loading
<1>3. mem \in Pair /\ mem \in Seen /\ mem.ref # Unknown /\ mem.ptr # Unknown
  BY PairType DEF IInv, LfRefTypeOK, TypeOK
<1>4. CASE mem = exp
  <2>1. Store(des) /\ Finish(t, TRUE) /\ Goto(t, "ret")
    BY <1>4 DEF Cmpxchg
  <2>2. des \in Pair
    <3>1. CASE op = "add"
      BY <1>3, <1>4, <3>1, PairType
    <3>2. CASE op # "add"
      BY <1>2, <3>2
    <3> QED
      BY <3>1, <3>2
  <2> HIDE DEF op, exp, des
  <2> QED
    BY <1>1, <2>1, <2>2, EndInv
<1>5. CASE mem # exp /\ op # "add"
  <2>1. UNCHANGED <<mem, resv>> /\ Finish(t, FALSE) /\ Goto(t, "ret")
    BY <1>5 DEF Cmpxchg
  <2> HIDE DEF op, exp, des
  <2> QED
    BY <1>1, <2>1, EndInv
<1>6. CASE mem # exp /\ op = "add"
  <2>1. UNCHANGED <<mem, resv, call, pc>>
    BY <1>6 DEF Cmpxchg
  <2>2. val' \in [Threads -> Seen] /\ val'[t] = mem
        /\ \A u \in Threads \ {t} : val'[u] = val[u]
    BY <1>1, <1>3 DEF IInv, LfRefTypeOK, TypeOK
  <2>3. LfRefTypeOK'
    BY <1>1, <2>1, <2>2 DEF IInv, LfRefTypeOK, TypeOK
  <2>4. Good(call[t], val[t], pc[t], result[t])'
    <3>1. Known(val'[t])
      BY <1>3, <2>2 DEF Known
    <3>2. op \notin Cas
      BY <1>6 DEF Cas, Weak, Strong
    <3> QED
      BY <1>1, <1>2, <2>1, <3>1, <3>2 DEF Good, Loading, Reserved
  <2>5. Phases'
    BY <1>1, <2>1, <2>2, <2>4, Frame DEF IInv
  <2>6. Coherent'
    BY <1>1, <2>1, <2>2, FrameCoherent DEF IInv
  <2> QED
    BY <2>3, <2>5, <2>6 DEF IInv
<1> QED
  BY <1>4, <1>5, <1>6

LEMMA AtomicStepInv ==
    ASSUME IInv, NEW t \in Threads, AtomicStep(t)
    PROVE  IInv'
<1>1. /\ pc[t] = "atomic" /\ Goto(t, "ret")
      /\ val' = [val EXCEPT ![t] = mem]
      /\ UNCHANGED <<build, result>>
  BY DEF AtomicStep
<1>2. call[t].op \in Cas => call[t].exp \in Pair /\ call[t].des \in Pair
  BY <1>1 DEF IInv, Phases, Good
<1>3. [mem EXCEPT !.ref = (@ + 1) % RefMod] \in Pair
  BY PairType DEF IInv, LfRefTypeOK, TypeOK
<1>4. Finish(t, TRUE) \/ Finish(t, FALSE)
  BY DEF AtomicStep
<1>5. UNCHANGED <<mem, resv>> \/ \E p \in Pair : Store(p)
  BY <1>2, <1>3 DEF AtomicStep
<1> QED
  BY <1>1, <1>4, <1>5, EndInv

LEMMA RetInv ==
    ASSUME IInv, NEW t \in Threads, Ret(t)
    PROVE  IInv'
<1>1. /\ call' = [call EXCEPT ![t] = NoCall]
      /\ val' = [val EXCEPT ![t] = Nothing]
      /\ result' = [result EXCEPT ![t] = 0]
      /\ resv' = [resv EXCEPT ![t] = FALSE]
      /\ pc' = [pc EXCEPT ![t] = "idle"]
      /\ UNCHANGED <<mem, build>>
  BY DEF Ret, Goto
<1>2. NoCall \in Call /\ Nothing \in Seen
  BY DEF NoCall, Call, Nothing, Seen, Words
<1>3. LfRefTypeOK'
  BY <1>1, <1>2 DEF IInv, LfRefTypeOK, TypeOK, Steps
<1>4. /\ call'[t] = NoCall /\ val'[t] = Nothing /\ pc'[t] = "idle" /\ ~resv'[t]
      /\ \A u \in Threads \ {t} :
            /\ call'[u] = call[u] /\ val'[u] = val[u] /\ pc'[u] = pc[u]
            /\ result'[u] = result[u] /\ resv'[u] = resv[u]
  BY <1>1 DEF IInv, LfRefTypeOK, TypeOK
<1>5. Good(call[t], val[t], pc[t], result[t])'
  BY <1>4 DEF Good, Loading, Reserved
<1>6. Phases'
  BY <1>1, <1>4, <1>5, Frame DEF IInv
<1>7. Coherent'
  BY <1>1, <1>4, FrameCoherent DEF IInv
<1> QED
  BY <1>3, <1>6, <1>7 DEF IInv

LEMMA NextInv == IInv /\ [LfRefNext]_refVars => IInv'
<1> SUFFICES ASSUME IInv, [LfRefNext]_refVars PROVE IInv'
  OBVIOUS
<1>1. CASE UNCHANGED refVars
  BY <1>1 DEF refVars, IInv, LfRefTypeOK, TypeOK, Coherent, Phases, Good,
     Loading, Reserved, Failed
<1>2. ASSUME NEW t \in Threads, LfRefStep(t) PROVE IInv'
  BY <1>2, CallOpInv, LoadLowInv, LoadHighInv, LoadAnyInv, LoadRestInv,
     LinkInv, LoadLinkedInv, LoadSecondInv, StoreConditionalInv, ScFailsInv,
     TestInv, CmpxchgInv, AtomicStepInv, RetInv DEF LfRefStep
<1> QED
  BY <1>1, <1>2 DEF LfRefNext

\* LfRef keeps its inductive invariant.
THEOREM Invariance == LfRefSpec => []IInv
<1>1. LfRefInit => IInv
  BY InitInv
<1>2. IInv /\ [LfRefNext]_refVars => IInv'
  BY NextInv
<1> QED
  BY <1>1, <1>2, PTL DEF LfRefSpec

\* The variables have their types; in particular counters wrap in their word
\* and never reach the pointer beside it (__lfbig_fetch_add).
THEOREM TypeInvariance == LfRefSpec => []LfRefTypeOK
<1>1. IInv => LfRefTypeOK
  BY DEF IInv
<1> QED
  BY <1>1, Invariance, PTL

\* What was read under a reservation is still in the pair when the
\* store-conditional succeeds.
THEOREM CoherentInvariance == LfRefSpec => []Coherent
<1>1. IInv => Coherent
  BY DEF IInv
<1> QED
  BY <1>1, Invariance, PTL
-----------------------------------------------------------------------------
\* Every step is one of AtomicRef or leaves its variables alone.

LEMMA FinishFailed ==
    ASSUME NEW t \in Threads, call \in [Threads -> Call], ~call[t].ok,
           Finish(t, FALSE)
    PROVE  /\ call' = [call EXCEPT ![t].done = TRUE]
           /\ call[t].done => call' = call
<1> DEFINE c == [call[t] EXCEPT !.done = TRUE, !.ok = FALSE]
<1>1. call' = [call EXCEPT ![t] = c]
  BY DEF Finish
<1>2. call[t] \in Call
  OBVIOUS
<1>3. c = [call[t] EXCEPT !.done = TRUE]
  BY <1>2 DEF Call
<1>4. call[t].done => c = call[t]
  BY <1>2 DEF Call
<1> HIDE DEF c
<1>5. call[t].done => [call EXCEPT ![t] = c] = call
  BY <1>4
<1> QED
  BY <1>1, <1>3, <1>5

LEMMA Stays ==
    ASSUME NEW t \in Threads, NEW ok \in BOOLEAN, call \in [Threads -> Call],
           Finish(t, ok), call[t].done, call[t].ok <=> ok
    PROVE  call' = call
<1> DEFINE c == [call[t] EXCEPT !.done = TRUE, !.ok = ok]
<1>1. call' = [call EXCEPT ![t] = c]
  BY DEF Finish
<1>2. call[t] \in Call
  OBVIOUS
<1>3. c = call[t]
  BY <1>2 DEF Call
<1> HIDE DEF c
<1>4. [call EXCEPT ![t] = c] = call
  BY <1>3
<1> QED
  BY <1>1, <1>4

\* A step that reads a word and settles nothing.
LEMMA Looks ==
    ASSUME IInv, NEW t \in Threads, NEW w \in {"ref", "ptr"}, ReadWord(t, w),
           UNCHANGED <<mem, call>>, pc[t] # "idle", ~call[t].ok
    PROVE  Look(t)
<1>1. /\ val'[t] \in Seen /\ Reread(val[t], val'[t], mem)
      /\ val' = [val EXCEPT ![t] = val'[t]]
  BY ReadEffect DEF IInv
<1>2. call[t].op # "none"
  BY DEF IInv, Phases, Good, Ops, Cas, Weak, Strong, Loads
<1> QED
  BY <1>1, <1>2 DEF Look

LEMMA LoadsWord ==
    ASSUME IInv, NEW t \in Threads, NEW w \in {"ref", "ptr"}, ReadWord(t, w),
           mem' = mem, call[t].op \in Loads, ~call[t].done, Finish(t, TRUE)
    PROVE  Load(t)
<1>1. /\ val'[t] \in Seen /\ Reread(val[t], val'[t], mem)
      /\ val' = [val EXCEPT ![t] = val'[t]]
  BY ReadEffect DEF IInv
<1> QED
  BY <1>1 DEF Load, Finish

LEMMA FailsAtWord ==
    ASSUME IInv, NEW t \in Threads, NEW w \in {"ref", "ptr"}, ReadWord(t, w),
           mem' = mem, call[t].op \in Cas, ~call[t].done, ~call[t].ok,
           mem # call[t].exp, Finish(t, FALSE)
    PROVE  Fail(t)
<1>1. /\ val'[t] \in Seen /\ Reread(val[t], val'[t], mem)
      /\ val' = [val EXCEPT ![t] = val'[t]]
  BY ReadEffect DEF IInv
<1>2. call' = [call EXCEPT ![t].done = TRUE]
  BY FinishFailed DEF IInv, LfRefTypeOK, TypeOK
<1> QED
  BY <1>1, <1>2 DEF Fail

LEMMA CallOpSim ==
    ASSUME IInv, NEW t \in Threads, CallOp(t)
    PROVE  Begin(t)
<1>1. call[t] = NoCall
  BY DEF CallOp, IInv, Phases, Good
<1>2. UNCHANGED <<mem, val>>
  BY DEF CallOp
<1>3. \E op \in Ops : \E e, d \in Args(op) :
          call' = [call EXCEPT ![t] = NewCall(op, e, d)]
  BY DEF CallOp
<1> QED
  BY <1>1, <1>2, <1>3 DEF Begin

LEMMA LoadSim ==
    ASSUME IInv, NEW t \in Threads,
           \/ LoadLow(t) \/ LoadHigh(t) \/ LoadAny(t) \/ LoadRest(t)
           \/ Declared /\ Link(t)
    PROVE  Look(t) \/ Load(t)
<1>1. Good(call[t], val[t], pc[t], result[t])
  BY DEF IInv, Phases
<1>2. CASE LoadLow(t)
  <2>1. /\ ReadWord(t, build.low) /\ build.low \in {"ref", "ptr"}
        /\ UNCHANGED <<mem, call>> /\ pc[t] = "low"
    BY <1>2, WordType DEF LoadLow, IInv
  <2>2. ~call[t].ok
    BY <1>1, <2>1 DEF Good, Loading, Pending, Reloading
  <2> QED
    BY <2>1, <2>2, Looks
<1>3. CASE LoadHigh(t)
  <2>1. /\ ReadWord(t, Other(build.low)) /\ Other(build.low) \in {"ref", "ptr"}
        /\ mem' = mem /\ pc[t] = "high"
    BY <1>3, WordType DEF LoadHigh, IInv
  <2>2. (call[t].op = "load" /\ Pending(call[t])) \/ Reloading(call[t])
    BY <1>1, <2>1 DEF Good, Loading
  <2>3. CASE call[t].op = "load" /\ Pending(call[t])
    <3>1. Finish(t, TRUE) /\ call[t].op \in Loads
      BY <1>3, <2>3 DEF LoadHigh, Loads
    <3> QED
      BY <2>1, <2>3, <3>1, LoadsWord DEF Pending
  <2>4. CASE Reloading(call[t])
    <3>1. call' = call
      BY <1>3, <2>4 DEF LoadHigh, Reloading, Loads, Weak
    <3> QED
      BY <2>1, <2>4, <3>1, Looks DEF Reloading
  <2> QED
    BY <2>2, <2>3, <2>4
<1>4. CASE LoadAny(t)
  <2>1. PICK w \in {"ref", "ptr"} : ReadWord(t, w)
    BY <1>4 DEF LoadAny
  <2>2. UNCHANGED <<mem, call>> /\ pc[t] = "any"
    BY <1>4 DEF LoadAny
  <2>3. ~call[t].ok
    BY <1>1, <2>2 DEF Good, Loading, Pending
  <2> QED
    BY <2>1, <2>2, <2>3, Looks
<1>5. CASE LoadRest(t)
  <2> DEFINE w == IF val[t].ref = Unknown THEN "ref" ELSE "ptr"
  <2>1. /\ ReadWord(t, w) /\ w \in {"ref", "ptr"}
        /\ mem' = mem /\ pc[t] = "rest"
    BY <1>5 DEF LoadRest
  <2> HIDE DEF w
  <2>2. ~call[t].ok /\ ~call[t].done
    BY <1>1, <2>1 DEF Good, Loading, Pending
  <2>3. CASE call[t].op = "load"
    <3>1. Finish(t, TRUE) /\ call[t].op \in Loads
      BY <1>5, <2>3 DEF LoadRest, Loads
    <3> QED
      BY <2>1, <2>2, <3>1, LoadsWord
  <2>4. CASE call[t].op # "load"
    <3>1. call' = call
      BY <1>5, <2>4 DEF LoadRest
    <3> QED
      BY <2>1, <2>2, <3>1, Looks
  <2> QED
    BY <2>3, <2>4
<1>6. CASE Link(t) /\ Declared
  <2>1. Linked = "ptr"
    BY <1>6, LfRefAssumption DEF IInv, LfRefTypeOK, Build, Declared, Linked, Other
  <2>2. /\ ReadWord(t, "ptr") /\ Finish(t, TRUE) /\ mem' = mem
        /\ pc[t] = "link"
    BY <1>6, <2>1 DEF Link, ReadWord
  <2>3. call[t].op \in Loads /\ ~call[t].done
    BY <1>1, <2>2 DEF Good, Loading, Pending, Loads
  <2> QED
    BY <2>2, <2>3, LoadsWord
<1> QED
  BY <1>2, <1>3, <1>4, <1>5, <1>6

LEMMA LoadLinkedSim ==
    ASSUME IInv, NEW t \in Threads, LoadLinked(t)
    PROVE  Look(t) \/ Fail(t)
<1> DEFINE op == call[t].op
<1>1. /\ ReadWord(t, First(op)) /\ First(op) \in {"ref", "ptr"}
      /\ mem' = mem /\ pc[t] = "ll"
  BY WordType DEF LoadLinked, IInv
<1>2. ~call[t].done /\ ~call[t].ok
  BY <1>1 DEF IInv, Phases, Good, Reserved, Pending
<1>3. CASE op \in Strong /\ mem[First(op)] # call[t].exp[First(op)]
  <2>1. Finish(t, FALSE) /\ op \in Cas /\ mem # call[t].exp
    BY <1>3 DEF LoadLinked, Cas
  <2> QED
    BY <1>1, <1>2, <2>1, FailsAtWord
<1>4. CASE ~(op \in Strong /\ mem[First(op)] # call[t].exp[First(op)])
  <2>1. call' = call
    BY <1>4 DEF LoadLinked
  <2> QED
    BY <1>1, <1>2, <2>1, Looks
<1> QED
  BY <1>3, <1>4

LEMMA LoadSecondSim ==
    ASSUME IInv, NEW t \in Threads, LoadSecond(t)
    PROVE  Look(t) \/ Fail(t)
<1> DEFINE op == call[t].op
           exp == call[t].exp
           same == val[t][First(op)] = exp[First(op)]
           both == same /\ mem[Second(op)] = exp[Second(op)]
<1>1. /\ ReadWord(t, Second(op)) /\ Second(op) \in {"ref", "ptr"}
      /\ mem' = mem /\ pc[t] = "ld"
  BY WordType DEF LoadSecond, IInv
<1>2. ~call[t].ok /\ (op \in Strong => (call[t].done <=> ~same))
  BY <1>1 DEF IInv, Phases, Good, Reserved
<1>3. CASE op \in Strong /\ ~both
  <2>1. Finish(t, FALSE) /\ op \in Cas
    BY <1>3 DEF LoadSecond, Cas
  <2>2. CASE call[t].done
    <3>1. call' = call
      BY <1>2, <2>1, <2>2, FinishFailed DEF IInv, LfRefTypeOK, TypeOK
    <3> QED
      BY <1>1, <1>2, <3>1, Looks
  <2>3. CASE ~call[t].done
    <3>1. mem # exp
      BY <1>2, <1>3, <2>3
    <3> QED
      BY <1>1, <1>2, <2>1, <2>3, <3>1, FailsAtWord
  <2> QED
    BY <2>2, <2>3
<1>4. CASE ~(op \in Strong /\ ~both)
  <2>1. call' = call
    BY <1>4 DEF LoadSecond
  <2> QED
    BY <1>1, <1>2, <2>1, Looks
<1> QED
  BY <1>3, <1>4

LEMMA StoreConditionalSim ==
    ASSUME IInv, NEW t \in Threads, StoreConditional(t)
    PROVE  Swap(t) \/ Add(t)
<1> DEFINE op == call[t].op
<1>1. /\ mem' = Desired(t) /\ Finish(t, TRUE) /\ val' = val
      /\ pc[t] = "sc" /\ resv[t]
  BY DEF StoreConditional, Store
<1>2. /\ op \in Cas \union {"add"} /\ ~call[t].done /\ OneWord(call[t])
      /\ op \in Cas => /\ val[t] = call[t].exp
                      /\ call[t].exp \in Pair /\ call[t].des \in Pair
  BY <1>1 DEF IInv, Phases, Good, Reserved, Pending
<1>3. val[t] = mem /\ mem \in Pair /\ val \in [Threads -> Seen]
  BY <1>1 DEF IInv, Coherent, LfRefTypeOK, TypeOK
<1>4. [val EXCEPT ![t] = mem] = val
  BY <1>3
<1>5. CASE op = "add"
  <2>1. Desired(t) = [mem EXCEPT !.ref = (@ + 1) % RefMod]
    BY <1>3, <1>5 DEF Desired
  <2> QED
    BY <1>1, <1>2, <1>4, <1>5, <2>1 DEF Add, Finish
<1>6. CASE op # "add"
  <2>1. op \in Cas /\ mem = call[t].exp /\ call[t].des \in Pair
    BY <1>2, <1>3, <1>6
  <2>2. Desired(t) = [mem EXCEPT ![First(op)] = call[t].des[First(op)]]
    BY <1>6 DEF Desired
  <2>3. call[t].des[Second(op)] = mem[Second(op)]
    BY <1>2, <2>1 DEF OneWord
  <2>4. Desired(t) = call[t].des
    <3>1. CASE First(op) = "ref"
      BY <1>3, <2>1, <2>2, <2>3, <3>1 DEF Pair, Second, Other
    <3>2. CASE First(op) = "ptr"
      BY <1>3, <2>1, <2>2, <2>3, <3>2 DEF Pair, Second, Other
    <3> QED
      BY <3>1, <3>2 DEF First
  <2> QED
    BY <1>1, <1>2, <1>4, <2>1, <2>4 DEF Swap, Finish
<1> QED
  BY <1>5, <1>6

LEMMA TestSim ==
    ASSUME IInv, NEW t \in Threads, Test(t)
    PROVE  Fail(t) \/ UNCHANGED vars
<1>1. UNCHANGED <<mem, val>> /\ Finish(t, Success(t)) /\ pc[t] = "test"
  BY DEF Test
<1>2. call[t].op \in Cas
  BY <1>1 DEF IInv, Phases, Good, Reserved
<1>3. call \in [Threads -> Call] /\ val \in [Threads -> Seen]
  BY DEF IInv, LfRefTypeOK, TypeOK
<1>4. CASE call[t].done
  <2>1. call[t].ok <=> Success(t)
    BY <1>1, SuccessTrue
  <2>2. call' = call
    BY <1>1, <1>3, <1>4, <2>1, SuccessTrue, Stays
  <2> QED
    BY <1>1, <2>2 DEF vars
<1>5. CASE ~call[t].done
  <2>1. ~Success(t) /\ ~call[t].ok /\ call[t].op \in Weak
    BY <1>1, <1>2, <1>5, SuccessTrue DEF Cas
  <2>2. Finish(t, FALSE)
    <3>1. Success(t) = FALSE
      BY <1>1, <2>1, SuccessTrue
    <3> QED
      BY <1>1, <3>1
  <2>3. call' = [call EXCEPT ![t].done = TRUE]
    BY <1>3, <2>1, <2>2, FinishFailed
  <2>4. val[t] \in Seen /\ Reread(val[t], val[t], mem)
        /\ val' = [val EXCEPT ![t] = val[t]]
    BY <1>1, <1>3 DEF Reread
  <2>5. call[t].op \notin Strong
    BY <2>1 DEF Weak, Strong
  <2> QED
    BY <1>1, <1>2, <1>5, <2>3, <2>4, <2>5 DEF Fail
<1> QED
  BY <1>4, <1>5

\* The whole pair may be what is read.
LEMMA RereadAll ==
    ASSUME IInv, NEW t \in Threads
    PROVE  mem \in Seen /\ Reread(val[t], mem, mem)
BY PairType DEF IInv, LfRefTypeOK, TypeOK, Reread

LEMMA CmpxchgSim ==
    ASSUME IInv, NEW t \in Threads, Cmpxchg(t)
    PROVE  Swap(t) \/ Add(t) \/ Fail(t) \/ Look(t)
<1> DEFINE op == call[t].op
<1>1. pc[t] = "cmpxchg" /\ val' = [val EXCEPT ![t] = mem]
  BY DEF Cmpxchg
<1>2. op \in Cas \union {"add"} /\ ~call[t].done /\ ~call[t].ok
  BY <1>1 DEF IInv, Phases, Good, Loading, Pending
<1>3. mem \in Seen /\ Reread(val[t], mem, mem) /\ mem \in Pair
  BY RereadAll DEF IInv, LfRefTypeOK, TypeOK
<1>4. CASE op = "add" /\ mem = val[t]
  <2>1. Finish(t, TRUE) /\ mem' = [mem EXCEPT !.ref = (@ + 1) % RefMod]
    BY <1>4 DEF Cmpxchg, Store
  <2> QED
    BY <1>1, <1>2, <1>4, <2>1 DEF Add, Finish
<1>5. CASE op = "add" /\ mem # val[t]
  <2>1. UNCHANGED <<mem, call>>
    BY <1>5 DEF Cmpxchg
  <2> QED
    BY <1>1, <1>2, <1>3, <1>5, <2>1 DEF Look
<1>6. CASE op # "add" /\ mem = call[t].exp
  <2>1. Finish(t, TRUE) /\ mem' = call[t].des
    BY <1>6 DEF Cmpxchg, Store
  <2> QED
    BY <1>1, <1>2, <1>6, <2>1 DEF Swap, Finish
<1>7. CASE op # "add" /\ mem # call[t].exp
  <2>1. Finish(t, FALSE) /\ mem' = mem
    BY <1>7 DEF Cmpxchg
  <2>2. call' = [call EXCEPT ![t].done = TRUE]
    BY <1>2, <2>1, FinishFailed DEF IInv, LfRefTypeOK, TypeOK
  <2> QED
    BY <1>1, <1>2, <1>3, <1>7, <2>1, <2>2 DEF Fail
<1> QED
  BY <1>4, <1>5, <1>6, <1>7

LEMMA AtomicStepSim ==
    ASSUME IInv, NEW t \in Threads, AtomicStep(t)
    PROVE  Load(t) \/ Add(t) \/ Swap(t) \/ Fail(t)
<1> DEFINE op == call[t].op
<1>1. pc[t] = "atomic" /\ val' = [val EXCEPT ![t] = mem]
  BY DEF AtomicStep
<1>2. ~call[t].done /\ ~call[t].ok
  BY <1>1 DEF IInv, Phases, Good, Loading, Pending
<1>3. mem \in Seen /\ Reread(val[t], mem, mem)
  BY RereadAll
<1>4. CASE op \in Loads \union {"add"} /\ Finish(t, TRUE)
           /\ IF op = "add" THEN Store([mem EXCEPT !.ref = (@ + 1) % RefMod])
              ELSE UNCHANGED <<mem, resv>>
  <2>1. CASE op = "add"
    BY <1>1, <1>2, <1>4, <2>1 DEF Add, Finish, Store
  <2>2. CASE op # "add"
    BY <1>1, <1>2, <1>3, <1>4, <2>2 DEF Load, Finish
  <2> QED
    BY <2>1, <2>2
<1>5. CASE op \in Cas /\ mem = call[t].exp /\ Finish(t, TRUE) /\ Store(call[t].des)
  BY <1>1, <1>2, <1>5 DEF Swap, Finish, Store
<1>6. CASE /\ op \in Cas /\ (mem # call[t].exp \/ op \in Weak)
           /\ Finish(t, FALSE) /\ mem' = mem
  <2>1. call' = [call EXCEPT ![t].done = TRUE]
    BY <1>2, <1>6, FinishFailed DEF IInv, LfRefTypeOK, TypeOK
  <2>2. op \in Strong => mem # call[t].exp
    BY <1>6 DEF Weak, Strong
  <2> QED
    BY <1>1, <1>2, <1>3, <1>6, <2>1, <2>2 DEF Fail
<1>7. \/ /\ op \in Loads \union {"add"} /\ Finish(t, TRUE)
         /\ IF op = "add" THEN Store([mem EXCEPT !.ref = (@ + 1) % RefMod])
            ELSE UNCHANGED <<mem, resv>>
      \/ op \in Cas /\ mem = call[t].exp /\ Finish(t, TRUE) /\ Store(call[t].des)
      \/ /\ op \in Cas /\ (mem # call[t].exp \/ op \in Weak)
         /\ Finish(t, FALSE) /\ mem' = mem
  BY DEF AtomicStep
<1> QED
  BY <1>4, <1>5, <1>6, <1>7

LEMMA RetSim ==
    ASSUME IInv, NEW t \in Threads, Ret(t)
    PROVE  Return(t)
<1>1. call[t].done /\ Complete(call[t], val[t])
  BY DEF Ret, IInv, Phases, Good
<1> QED
  BY <1>1 DEF Ret, Return

\* A step of LfRef is one of AtomicRef or leaves its variables alone, but for
\* that of __lfref_link in a build that does not declare its byte order.
LEMMA StepSim ==
    ASSUME IInv, [LfRefNext]_refVars
    PROVE  [Next \/ \E t \in Threads : ~Declared /\ Link(t)]_vars
<1>1. CASE UNCHANGED refVars
  BY <1>1 DEF refVars, vars
<1>2. ASSUME NEW t \in Threads, LfRefStep(t)
      PROVE  [Next \/ \E u \in Threads : ~Declared /\ Link(u)]_vars
  <2>1. ScFails(t) => UNCHANGED vars
    BY DEF ScFails, vars
  <2>2. \/ Begin(t) \/ Look(t) \/ Load(t) \/ Swap(t) \/ Fail(t) \/ Add(t)
        \/ Return(t) \/ UNCHANGED vars \/ (~Declared /\ Link(t))
    BY <1>2, <2>1, CallOpSim, LoadSim, LoadLinkedSim, LoadSecondSim,
       StoreConditionalSim, TestSim, CmpxchgSim, AtomicStepSim, RetSim
    DEF LfRefStep
  <2> QED
    BY <2>2 DEF Next
<1> QED
  BY <1>1, <1>2 DEF LfRefNext

\* In every build, on every CPU and for every byte order, declared or not, a
\* call of the platform layer takes effect at one instant, or not at all and
\* says so (mips.h, ppc.h, gcc_x86.h, llvm_x86.h, c11.h); the one exception is
\* the load of __lfref_link where __LITTLE_ENDIAN__ is missing (lf.h:80-84).
THEOREM ImplementsButLink == LfRefSpec => Init /\ StepOrLink
<1>1. LfRefInit => Init
  BY DEF LfRefInit
<1>2. IInv /\ [LfRefNext]_refVars
      => [Next \/ \E t \in Threads : ~Declared /\ Link(t)]_vars
  BY StepSim
<1> QED
  BY <1>1, <1>2, Invariance, PTL DEF LfRefSpec, StepOrLink

\* Where the byte order is declared there is no exception: LfRef implements
\* AtomicRef.
THEOREM Implements == LfRefSpec /\ Declared => Refines
<1>1. LfRefInit => Init
  BY DEF LfRefInit
<1>2. Declared /\ [LfRefNext]_refVars => Declared'
  <2> SUFFICES ASSUME Declared, [LfRefNext]_refVars PROVE build' = build
    BY DEF Declared
  <2>1. ASSUME NEW t \in Threads, LfRefStep(t) PROVE build' = build
    BY <2>1 DEF LfRefStep, CallOp, LoadLow, LoadHigh, LoadAny, LoadRest, Link,
       LoadLinked, LoadSecond, StoreConditional, ScFails, Test, Cmpxchg,
       AtomicStep, Ret
  <2> QED
    BY <2>1 DEF LfRefNext, refVars
<1>3. Declared /\ IInv /\ [LfRefNext]_refVars => [Next]_vars
  BY StepSim
<1> QED
  BY <1>1, <1>2, <1>3, Invariance, PTL DEF LfRefSpec, Refines, Spec
=============================================================================
