---------------------------- MODULE MCWFETracker ----------------------------
\* Model-checking instances of WFETracker.
EXTENDS WFETracker, TLC

\* The blocks of the allocator are interchangeable.
Symmetry == Permutations(Objs)

\* What the clients do in a behaviour.
\*   path: a reader reads roots through slot 1, and fields of the node in slot
\*         1 through slot 2, or reserves slot 2 with that node, in the slow
\*         path once per slot; it unlinks and retires nodes, the others
\*         allocate and link them.
\*   poll: a reader reads and reserves through slot 1, again and again; the
\*         others allocate, link, unlink and retire.
\*   race: as poll, but only thread 3 links, unlinks and retires.
VARIABLE client

\* The stamps of a block that are not set yet are never read: states that
\* differ only there are one.
View ==
    <<clientVars, epoch, counters, slots, states, garbage, given, asked, pc,
      call, help, scan, client,
      [o \in Objs |-> IF status[o] = "free" THEN 0 ELSE birth[o]],
      [o \in Objs |-> IF status[o] = "retired" THEN retireEpoch[o] ELSE 0]>>

Path(t) ==
    LET r == call'[t] IN
    /\ pc[t] = "idle" /\ pc'[t] = "check" =>
          /\ tag[t][r.idx] = 0 /\ (r.op = "read" \/ r.node # NULL)
          /\ r.idx = (IF r.node = NULL THEN 1 ELSE 2)
    /\ t \in Readers => mine'[t] = NULL
    /\ t \notin Readers => victim'[t] = NULL

Poll(t) ==
    /\ pc[t] = "idle" /\ pc'[t] = "check" => call'[t].idx = 1
    /\ t \in Readers => mine'[t] = NULL /\ victim'[t] = NULL

Race(t) ==
    /\ Poll(t)
    /\ t # 3 => /\ victim'[t] = NULL
                /\ mine[t] # NULL => \A c \in Cells : cell'[c] # mine[t]

Clients(S) == Init /\ client \in S
MCNext ==
    /\ Next /\ UNCHANGED client
    /\ \A t \in Tasks : \/ client = "path" /\ Path(t)
                        \/ client = "poll" /\ Poll(t)
                        \/ client = "race" /\ Race(t)

MCSpec == Clients({"path", "poll"}) /\ [][MCNext]_<<vars, client>>
RaceSpec == Clients({"race"}) /\ [][MCNext]_<<vars, client>>
=============================================================================
