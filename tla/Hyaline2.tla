------------------------------ MODULE Hyaline2 ------------------------------
(***************************************************************************)
(* Hyaline with heads of two words (lfsmr_cas2.h, lfbsmr_cas2.h): any      *)
(* number of threads share a slot.  A head counts the threads inside; when *)
(* a node is buried under another one its batch gets that many references. *)
(* So that the counter of a batch is zero only at the end it is increased  *)
(* by the addend, too, once for each slot: the addends of all the slots    *)
(* wrap to zero.                                                           *)
(***************************************************************************)
EXTENDS Hyaline

\* enter of Hyaline-S looks for a slot where no thread has stalled, at most
\* once around.
EnterLook(t) ==
    LET i == at[t]
        j == (i + 1) % NumSlots
    IN
    /\ pc[t] = "look"
    /\ \/ /\ j = vec[t] \/ counter[i] < StallLimit
          /\ Goto(t, "add")
          /\ UNCHANGED at
       \/ /\ j # vec[t] /\ counter[i] >= StallLimit
          /\ at' = [at EXCEPT ![t] = j]
          /\ UNCHANGED pc
    /\ UNCHANGED <<clientVars, mem, own, held, rd, wk, list, rt>>

\* enter: count the thread in and remember the list.
EnterAdd(t) ==
    LET i == at[t] IN
    /\ pc[t] = "add" /\ build.words = 2
    /\ head' = [head EXCEPT ![i].ref = @ + 1]
    /\ handle' = [handle EXCEPT ![t] = head[i].ptr]
    /\ vec' = [vec EXCEPT ![t] = i]
    /\ Goto(t, "in")
    /\ UNCHANGED <<clientVars, build, epochs, nodes, allocs, batch, minEpoch,
                   held, locals>>

\* start_op
Enter2(t) ==
    /\ pc[t] = "out" /\ build.words = 2
    /\ Goto(t, Entry)
    /\ UNCHANGED <<clientVars, mem, own, held, locals>>

-----------------------------------------------------------------------------
\* leave: the head loaded, and the successor of its node.
LoadHead(t, w) ==
    LET c == head[vec[t]].ptr IN
    /\ wk' = [wk EXCEPT ![t] = [w EXCEPT !.curr = c,
                !.next = IF c = handle[t] THEN NULL ELSE next[c]]]
    /\ Goto(t, "lv_cas")

\* leave: the call at the end of an operation.
Leave2(t) ==
    /\ pc[t] = "in" /\ mine[t] = NULL /\ build.words = 2
    /\ held' = [held EXCEPT ![t] = {}]
    /\ LoadHead(t, NoWalk)
    /\ UNCHANGED <<clientVars, mem, own, at, rd, list, rt>>

\* leave: the call in a traversal of trim.
LeaveTrim2(t) ==
    /\ pc[t] = "leave" /\ build.words = 2
    /\ LoadHead(t, wk[t])
    /\ UNCHANGED <<clientVars, mem, own, held, at, rd, list, rt>>

\* leave: the compare-and-swap found another head, and loaded it.
LeaveRetry(t) ==
    /\ pc[t] = "lv_cas"
    /\ head[vec[t]].ptr # wk[t].curr
    /\ LoadHead(t, wk[t])
    /\ UNCHANGED <<clientVars, mem, own, held, at, rd, list, rt>>

\* leave: the compare-and-swap counts the thread out.  The last one takes the
\* list with it, in the same step only if both words are written.
LeaveCas(t) ==
    LET s == vec[t]
        c == wk[t].curr
        last == head[s].ref = 1
        segs == IF c = handle[t] THEN <<>> ELSE Walk(wk[t].next, handle[t], 0)
        w == [wk[t] EXCEPT !.curr = NULL, !.next = NULL, !.segs = segs \o @]
    IN
    /\ pc[t] = "lv_cas"
    /\ head[s].ptr = c
    /\ head' = [head EXCEPT ![s] =
                    [ref |-> @.ref - 1,
                     ptr |-> IF last /\ build.full THEN NULL ELSE c]]
    /\ \/ /\ last /\ c # NULL
          /\ rt' = [rt EXCEPT ![t].node = c, ![t].amt = Addend]
          /\ wk' = [wk EXCEPT ![t] = w]
          /\ Goto(t, IF build.full THEN "lv_adj" ELSE "lv_clear")
          /\ UNCHANGED <<at, list>>
       \/ /\ ~(last /\ c # NULL)
          /\ Proceed(t, w, list[t])
          /\ UNCHANGED rt
    /\ UNCHANGED <<clientVars, build, epochs, nodes, own, held, rd>>

\* leave: the list of an empty slot is taken in a second step, by one of the
\* threads that left it empty.
LeaveClear(t) ==
    LET s == vec[t]
        mineToClear == head[s] = [ref |-> 0, ptr |-> rt[t].node]
    IN
    /\ pc[t] = "lv_clear"
    /\ \/ /\ mineToClear
          /\ head' = [head EXCEPT ![s].ptr = NULL]
          /\ Goto(t, "lv_adj")
          /\ UNCHANGED <<at, wk, list, rt>>
       \/ /\ ~mineToClear
          /\ rt' = [rt EXCEPT ![t] = NoRetire]
          /\ Proceed(t, wk[t], list[t])
          /\ UNCHANGED head
    /\ UNCHANGED <<clientVars, build, epochs, nodes, own, held, rd>>

\* leave: the adjustment for the node that was the head.
LeaveAdjust(t) ==
    /\ pc[t] = "lv_adj"
    /\ AdjustRefs(rt[t].node, rt[t].amt)
    /\ rt' = [rt EXCEPT ![t] = NoRetire]
    /\ Proceed(t, wk[t], Adjusted(t, rt[t].node, rt[t].amt))
    /\ UNCHANGED <<clientVars, build, head, epochs, next, link, birth, own,
                   held, rd>>

-----------------------------------------------------------------------------
\* __retire: after the push, the head that was there gets its references.
RtPush2(t) ==
    LET n == head[at[t]].ref
        r == [rt[t] EXCEPT !.refs = IF Acks THEN n ELSE 0, !.prev = NULL]
        buried == rt[t].prev
    IN
    /\ build.words = 2
    /\ Push(t)
    /\ \/ /\ buried # NULL
          /\ rt' = [rt EXCEPT ![t] = [r EXCEPT !.node = buried,
                                        !.amt = (Addend + n) % CounterMod]]
          /\ Goto(t, "rt_adj")
       \/ /\ buried = NULL
          /\ rt' = [rt EXCEPT ![t] = r]
          /\ Goto(t, "rt_count")
    /\ UNCHANGED <<clientVars, build, epochs, link, refs, birth, own, held,
                   at, rd, wk, list>>

RtAdjust(t) ==
    /\ pc[t] = "rt_adj"
    /\ AdjustRefs(rt[t].node, rt[t].amt)
    /\ list' = [list EXCEPT ![t] = Adjusted(t, rt[t].node, rt[t].amt)]
    /\ rt' = [rt EXCEPT ![t].node = NULL, ![t].amt = 0]
    /\ Goto(t, "rt_count")
    /\ UNCHANGED <<clientVars, build, head, epochs, next, link, birth, own,
                   held, at, rd, wk>>

\* __retire: in Hyaline-S the threads inside have one node more to
\* acknowledge.  Then the pushed node leads to the next one of the batch.
RtCount(t) ==
    /\ pc[t] = "rt_count"
    /\ counter' = [counter EXCEPT ![at[t]] = @ + rt[t].refs]
    /\ UNCHANGED list
    /\ NextSlot(t, [rt[t] EXCEPT !.todo = Tail(@), !.refs = 0])
    /\ UNCHANGED <<clientVars, build, head, access, global, nodes, own, held,
                   rd>>

-----------------------------------------------------------------------------
\* The compare-and-swap of the epoch a, expected to be seen, with e.
SwapBlind(a, seen, e) == e
Swap(a, seen, e) == IF a = seen THEN e ELSE a

\* access: raise the epoch of the slot; another thread of the slot may have
\* raised it already, or further.
DerefAccess2(t) ==
    LET a == access[vec[t]]
        e == rd[t].global
        hit == a = rd[t].access
    IN
    /\ pc[t] = "access" /\ build.words = 2
    /\ access' = [access EXCEPT ![vec[t]] = Swap(a, rd[t].access, e)]
    /\ rd' = [rd EXCEPT ![t].access = IF hit THEN e ELSE a]
    /\ \/ (hit \/ EpochGeq(a, e)) /\ Goto(t, AfterAccess)
       \/ ~hit /\ ~EpochGeq(a, e) /\ UNCHANGED pc
    /\ UNCHANGED <<clientVars, build, head, counter, global, nodes, own, held,
                   at, wk, list, rt>>
=============================================================================
