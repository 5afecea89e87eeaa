------------------------------ MODULE Hyaline1 ------------------------------
(***************************************************************************)
(* Hyaline with heads of one word (lfsmr_cas1.h, lfbsmr_cas1.h), for the   *)
(* trackers with one slot for each thread: the counter of the head is one  *)
(* bit, the owner of the slot walks the whole list, and a batch gets its   *)
(* references at the end of retire, one for each node pushed.              *)
(***************************************************************************)
EXTENDS Hyaline

\* enter: the slot is active, with an empty list.
Enter1(t) ==
    /\ pc[t] \in {"out", "add"} /\ build.words = 1
    /\ head' = [head EXCEPT ![vec[t]] = [ref |-> 1, ptr |-> NULL]]
    /\ handle' = [handle EXCEPT ![t] = NULL]
    /\ Goto(t, "in")
    /\ UNCHANGED <<clientVars, build, epochs, nodes, allocs, batch, minEpoch,
                   vec, held, locals>>

\* leave: the exchange detaches the list; the thread walks it to its end, or
\* to the head it found in the last trim.
TakeList(t, w) ==
    /\ head' = [head EXCEPT ![vec[t]] = [ref |-> 0, ptr |-> NULL]]
    /\ Proceed(t, [w EXCEPT !.segs = IF head[vec[t]].ptr = NULL THEN @
                        ELSE Walk(head[vec[t]].ptr, handle[t], 0) \o @],
               list[t])
    /\ UNCHANGED <<clientVars, build, epochs, nodes, own, rd, rt>>

\* leave: the call at the end of an operation.
Leave1(t) ==
    /\ pc[t] = "in" /\ mine[t] = NULL /\ build.words = 1
    /\ held' = [held EXCEPT ![t] = {}]
    /\ TakeList(t, NoWalk)

\* leave: the call in a traversal of trim.
LeaveTrim1(t) ==
    /\ pc[t] = "leave" /\ build.words = 1
    /\ TakeList(t, wk[t])
    /\ UNCHANGED held

\* __retire: one more node was pushed.
RtPush1(t) ==
    /\ build.words = 1
    /\ Push(t)
    /\ UNCHANGED list
    /\ NextSlot(t, [rt[t] EXCEPT !.todo = Tail(@), !.prev = NULL,
                                 !.adjs = (@ + 1) % CounterMod])
    /\ UNCHANGED <<clientVars, build, epochs, link, refs, birth, own, held,
                   rd>>

\* access: only the owner writes the epoch of its slot.
DerefAccess1(t) ==
    /\ pc[t] = "access" /\ build.words = 1
    /\ access' = [access EXCEPT ![vec[t]] = rd[t].global]
    /\ rd' = [rd EXCEPT ![t].access = rd[t].global]
    /\ Goto(t, AfterAccess)
    /\ UNCHANGED <<clientVars, build, head, counter, global, nodes, own, held,
                   at, wk, list, rt>>
=============================================================================
