---------------------------- MODULE ReplicasProofs ----------------------------
(***************************************************************************)
(* Proofs about Replicas, for every set of data directories, every policy   *)
(* and any number of restarts. Types and the spread of damage need only     *)
(* where each thread is and what it waits for. That a retirement deletes    *)
(* what it clears, and nothing protected, holds when requests are served    *)
(* one at a time and no call is handled after its caller gave up.           *)
(***************************************************************************)
EXTENDS Replicas, TLAPS

\* The calls each thread makes, and its labels.
OpsOf(t) ==
    CASE t = "replicate" -> {"allow", "fetch"}
      [] t = "retire"    -> {"delete"}
      [] t = "verify"    -> {"verify"}
      [] t = "restore"   -> {"probe", "allow", "fetch", "restore", "unstage"}

LabelsOf(t) ==
    CASE t = "replicate" -> {"ready", "done", "wait", "loop", "fetch", "add", "reread"}
      [] t = "retire"    -> {"idle", "wait", "check", "delete"}
      [] t = "verify"    -> {"idle", "wait", "valid", "corrupt"}
      [] t = "restore"   -> {"idle", "wait", "reserve", "pending", "provide", "fetch", "add",
                             "apply", "commit", "abort", "put_back", "release"}

\* Labels at which replicate and restore work for no node.
Aimless == {"idle", "ready", "done", "loop", "reread"}

\* s is a state thread t can be in.
Fits(t, s) ==
    /\ s.pc \in LabelsOf(t)
    /\ s.pc \in {"wait", "fetch"} => s.call \in Messages
    /\ s.pc = "wait" => s.call.by = t /\ s.call.op \in OpsOf(t)
    /\ s.pc = "wait" /\ s.call.op = "fetch" => s.call.node = s.target
    /\ t \in {"replicate", "restore"} /\ s.pc \notin Aimless => s.target \in NodeIds

Placed == \A t \in Threads : Fits(t, thread[t])

\* TypeOK, in the parts that actions change together.
RowTypes ==
    /\ lifecycle \in LifecycleStates
    /\ integrity \in {"valid", "pending", "corrupt"}
    /\ protection \in ProtectionStates
    /\ reserved \in BOOLEAN
NodeTypes ==
    /\ active \subseteq NodeIds
    /\ boot \in [Hosts -> Nat]
    /\ disk \in [Hosts -> DiskStates]
    /\ copying \subseteq Messages
    /\ tokens \subseteq NodeIds \X Threads
    /\ beats \subseteq NodeIds
ThreadTypes == thread \in [Threads -> ThreadStates]
ListTypes == locations \in Seq(NodeIds) /\ msgs \subseteq Messages

TInv == RowTypes /\ NodeTypes /\ ThreadTypes /\ ListTypes /\ Placed

\* One thread moves, to a state it can be in.
Moved(t) == \E s \in ThreadStates : Fits(t, s) /\ thread' = [thread EXCEPT ![t] = s]

------------------------------------------------------------------------------
(* Threads *)

\* One thread that moves to a state it can be in leaves the others where they were.
LEMMA MovedKeeps ==
    ASSUME ThreadTypes, Placed, NEW t \in Threads, Moved(t)
    PROVE  /\ ThreadTypes' /\ Placed'
           /\ \A u \in Threads : u # t => thread'[u] = thread[u]
BY DEF ThreadTypes, Placed, Moved

\* The fields of a thread.
LEMMA States ==
    ASSUME NEW s \in ThreadStates
    PROVE  /\ s.pc \in Labels
           /\ s.call \in Messages \cup {NoCall}
           /\ s.target \in NodeIds \cup {None}
           /\ s.snap \in Seq(NodeIds)
           /\ s.todo \in SUBSET NodeIds
BY DEF ThreadStates

\* The labels and the calls of the four threads.
LEMMA ThreadLabels ==
    /\ \A t \in Threads : LabelsOf(t) \subseteq Labels /\ OpsOf(t) \subseteq Ops
    /\ LabelsOf("replicate") = {"ready", "done", "wait", "loop", "fetch", "add", "reread"}
    /\ LabelsOf("retire") = {"idle", "wait", "check", "delete"}
    /\ LabelsOf("verify") = {"idle", "wait", "valid", "corrupt"}
    /\ LabelsOf("restore") = {"idle", "wait", "reserve", "pending", "provide", "fetch", "add",
                              "apply", "commit", "abort", "put_back", "release"}
    /\ OpsOf("replicate") = {"allow", "fetch"} /\ OpsOf("retire") = {"delete"}
    /\ OpsOf("verify") = {"verify"}
    /\ OpsOf("restore") = {"probe", "allow", "fetch", "restore", "unstage"}
BY DEF Threads, LabelsOf, OpsOf, Labels, Ops

\* A thread that returns fits.
LEMMA ReturnedFits ==
    ASSUME NEW t \in Threads
    PROVE  /\ Returned(t) \in ThreadStates /\ Fits(t, Returned(t))
           /\ Returned(t).pc \in {"idle", "done"}
<1>1. Fresh \in ThreadStates /\ Fresh.pc = "idle"
  <2>1. <<>> \in Seq(NodeIds) /\ {} \in SUBSET NodeIds /\ "idle" \in Labels
    BY DEF Labels
  <2> QED BY <2>1 DEF Fresh, ThreadStates
<1>2. [Fresh EXCEPT !.pc = "done"] \in ThreadStates /\ [Fresh EXCEPT !.pc = "done"].pc = "done"
  <2>1. "done" \in Labels
    BY DEF Labels
  <2> QED BY <1>1, <2>1 DEF ThreadStates
<1>3. Returned(t) \in ThreadStates /\ Returned(t).pc = IF t = "replicate" THEN "done" ELSE "idle"
  BY <1>1, <1>2 DEF Returned
<1>4. (IF t = "replicate" THEN "done" ELSE "idle") \in LabelsOf(t)
  BY ThreadLabels DEF Threads
<1> QED BY <1>3, <1>4 DEF Fits, Aimless

\* Where a thread goes on after one of its calls.
LEMMA AfterLabel ==
    ASSUME NEW t \in Threads, NEW op \in OpsOf(t), NEW r
    PROVE  /\ After(t, op, r) \in (LabelsOf(t) \cup {"return"}) \ {"wait"}
           /\ After(t, op, r) \notin {"idle", "ready", "done", "loop"}
           /\ After(t, op, r) = "add" <=> op = "fetch" /\ r = "ok"
           /\ After(t, op, r) = "delete" => op = "delete" /\ r = "ok"
           /\ After(t, op, r) = "fetch" => op = "allow"
           /\ t = "retire" => After(t, op, r) \in {"delete", "return"}
<1>1. CASE t = "replicate"
  BY <1>1, ThreadLabels DEF After
<1>2. CASE t = "retire"
  BY <1>2, ThreadLabels DEF After
<1>3. CASE t = "verify"
  BY <1>3, ThreadLabels DEF After
<1>4. CASE t = "restore"
  BY <1>4, ThreadLabels DEF After
<1> QED BY <1>1, <1>2, <1>3, <1>4 DEF Threads

\* A call that ends moves its thread on, or returns.
LEMMA Continues ==
    ASSUME ThreadTypes, Placed, NEW t \in Threads, thread[t].pc = "wait",
           NEW r, Continue(t, r)
    PROVE  /\ Moved(t)
           /\ thread'[t].pc # "wait"
           /\ \/ thread'[t].pc \in {"idle", "done"}
              \/ /\ thread'[t].pc = After(t, thread[t].call.op, r)
                 /\ thread'[t].target = thread[t].target
                 /\ thread'[t].snap = thread[t].snap
<1> DEFINE op == thread[t].call.op
<1> DEFINE label == After(t, op, r)
<1> DEFINE s == IF label = "return" THEN Returned(t) ELSE [thread[t] EXCEPT !.pc = label]
<1>1. thread[t] \in ThreadStates /\ Fits(t, thread[t])
  BY DEF ThreadTypes, Placed
<1>2. op \in OpsOf(t)
  BY <1>1 DEF Fits
<1>3. thread' = [thread EXCEPT ![t] = s]
  BY DEF Continue
<1>4. thread'[t] = s
  BY <1>3 DEF ThreadTypes
<1>5. CASE label = "return"
  <2>1. s = Returned(t)
    BY <1>5
  <2> HIDE DEF s
  <2> QED BY <1>3, <1>4, <2>1, ReturnedFits DEF Moved
<1>6. CASE label # "return"
  <2>1. label \in LabelsOf(t) /\ label \in Labels /\ label # "wait"
    BY <1>2, <1>6, AfterLabel, ThreadLabels
  <2>2. s = [thread[t] EXCEPT !.pc = label]
    BY <1>6
  <2>3. label = "fetch" => op = "allow"
    BY <1>2, AfterLabel
  <2> HIDE DEF label
  <2>4. /\ s \in ThreadStates /\ s.pc = label /\ s.call = thread[t].call
        /\ s.target = thread[t].target /\ s.snap = thread[t].snap
    BY <1>1, <2>1, <2>2 DEF ThreadStates
  <2> HIDE DEF s
  <2>5. Fits(t, s)
    BY <1>1, <2>1, <2>4 DEF Fits, Aimless
  <2> QED BY <1>3, <1>4, <2>1, <2>4, <2>5 DEF Moved, label
<1> QED BY <1>5, <1>6

\* A call leaves its thread waiting.
LEMMA Calls ==
    ASSUME ThreadTypes, Placed, NEW t \in Threads, NEW th \in ThreadStates,
           NEW op \in OpsOf(t), NEW node \in NodeIds, NEW peer \in NodeIds,
           t \in {"replicate", "restore"} => th.target \in NodeIds,
           op = "fetch" => node = th.target,
           Call(t, th, op, node, peer)
    PROVE  /\ Moved(t)
           /\ thread'[t].pc = "wait"
           /\ thread'[t].call \in Messages
           /\ thread'[t].call.op = op
           /\ thread'[t].call.node = node
           /\ thread'[t].target = th.target
           /\ thread'[t].snap = th.snap
           /\ msgs' \subseteq msgs \cup {thread'[t].call}
<1> DEFINE m == [op |-> op, by |-> t, node |-> node, peer |-> peer]
<1> DEFINE s == [th EXCEPT !.pc = "wait", !.call = m]
<1>1. m \in Messages /\ m.op = op /\ m.by = t /\ m.node = node
  BY ThreadLabels DEF Messages
<1>2. thread' = [thread EXCEPT ![t] = s] /\ msgs' \subseteq msgs \cup {m}
  BY DEF Call
<1>3. thread'[t] = s
  BY <1>2 DEF ThreadTypes
<1>4. "wait" \in Labels /\ "wait" \in LabelsOf(t)
  BY ThreadLabels DEF Labels, Threads
<1> HIDE DEF m
<1>5. s \in ThreadStates /\ s.pc = "wait" /\ s.call = m /\ s.target = th.target /\ s.snap = th.snap
  BY <1>1, <1>4 DEF ThreadStates
<1> HIDE DEF s
<1>6. Fits(t, s)
  BY <1>1, <1>4, <1>5 DEF Fits
<1> QED BY <1>1, <1>2, <1>3, <1>5, <1>6 DEF Moved

\* A thread goes to another of its labels where it keeps what it has.
LEMMA Gotos ==
    ASSUME ThreadTypes, Placed, NEW t \in Threads, NEW l \in LabelsOf(t) \ {"wait", "fetch"},
           thread[t].pc \in Aimless => l \in Aimless,
           Goto(t, l)
    PROVE  /\ Moved(t)
           /\ thread'[t].pc = l
           /\ thread'[t].target = thread[t].target
           /\ thread'[t].snap = thread[t].snap
<1> DEFINE s == [thread[t] EXCEPT !.pc = l]
<1>1. thread[t] \in ThreadStates /\ Fits(t, thread[t]) /\ l \in Labels
  BY ThreadLabels DEF ThreadTypes, Placed
<1>2. thread' = [thread EXCEPT ![t] = s] /\ thread'[t] = s
  BY DEF Goto, ThreadTypes
<1>3. s \in ThreadStates /\ s.pc = l /\ s.target = thread[t].target /\ s.snap = thread[t].snap
  BY <1>1 DEF ThreadStates
<1> HIDE DEF s
<1> QED BY <1>1, <1>2, <1>3 DEF Moved, Fits

\* A thread returns.
LEMMA Returns ==
    ASSUME ThreadTypes, NEW t \in Threads, Return(t)
    PROVE  Moved(t) /\ thread'[t].pc \in {"idle", "done"}
BY ReturnedFits DEF ThreadTypes, Return, Moved

\* An answer moves the thread that waits for it, and no other.
LEMMA Answers ==
    ASSUME ThreadTypes, Placed, NEW m \in Messages, NEW r, Answer(m, r)
    PROVE  /\ ThreadTypes' /\ Placed'
           /\ \A u \in Threads : u # m.by => thread'[u] = thread[u]
           /\ Waiting(m) => Continue(m.by, r)
           /\ ~Waiting(m) => thread' = thread
<1>1. m.by \in Threads
  BY DEF Messages
<1>2. CASE Waiting(m)
  BY <1>1, <1>2, Continues, MovedKeeps DEF Answer, Waiting
<1>3. CASE ~Waiting(m)
  BY <1>3 DEF Answer, ThreadTypes, Placed
<1> QED BY <1>2, <1>3

------------------------------------------------------------------------------
(* Locations *)

HostsOf(s) == {s[i][1] : i \in DOMAIN s}

\* What is appended to a list of node ids.
LEMMA Appended ==
    ASSUME NEW s \in Seq(NodeIds), NEW n \in NodeIds
    PROVE  /\ Append(s, n) \in Seq(NodeIds)
           /\ HostsOf(Append(s, n)) = HostsOf(s) \cup {n[1]}
<1>1. /\ Append(s, n) \in Seq(NodeIds)
      /\ DOMAIN s = 1 .. Len(s) /\ Len(s) \in Nat
      /\ DOMAIN Append(s, n) = 1 .. Len(s) + 1
      /\ \A i \in 1 .. Len(s) : Append(s, n)[i] = s[i]
      /\ Append(s, n)[Len(s) + 1] = n
  OBVIOUS
<1> DEFINE a == Append(s, n)
<1> HIDE DEF a
<1>2. \A i \in DOMAIN a : a[i][1] \in HostsOf(s) \cup {n[1]}
  BY <1>1 DEF HostsOf, a
<1>3. \A i \in DOMAIN s : i \in DOMAIN a /\ a[i] = s[i]
  BY <1>1 DEF a
<1>4. Len(s) + 1 \in DOMAIN a /\ a[Len(s) + 1] = n
  BY <1>1 DEF a
<1>5. HostsOf(a) = HostsOf(s) \cup {n[1]}
  BY <1>2, <1>3, <1>4 DEF HostsOf
<1> QED BY <1>1, <1>5 DEF a

\* A location that is added is listed, and nothing else changes.
LEMMA Adds ==
    ASSUME locations \in Seq(NodeIds), NEW n \in NodeIds, AddLocation(n)
    PROVE  /\ locations' \in Seq(NodeIds)
           /\ HostsOf(locations') = HostsOf(locations) \cup {n[1]}
<1>1. CASE \E i \in DOMAIN locations : locations[i] = n
  <2>1. locations' = locations
    BY <1>1 DEF AddLocation
  <2>2. n[1] \in HostsOf(locations)
    BY <1>1 DEF HostsOf
  <2> QED BY <2>1, <2>2
<1>2. CASE ~ \E i \in DOMAIN locations : locations[i] = n
  BY <1>2, Appended DEF AddLocation
<1> QED BY <1>1, <1>2

\* A rebinding lists the directory and keeps the entries of the others.
LEMMA Rebinds ==
    ASSUME locations \in Seq(NodeIds), NEW n \in NodeIds, Rebind(n)
    PROVE  /\ locations' \in Seq(NodeIds)
           /\ HostsOf(locations') = HostsOf(locations) \cup {n[1]}
<1> DEFINE P == {i \in DOMAIN locations : locations[i][1] # n[1]}
<1>0. PICK k \in 0 .. Len(locations) : \E kept \in [1 .. k -> DOMAIN locations] :
         /\ {kept[i] : i \in 1 .. k} = P
         /\ \A i, j \in 1 .. k : i < j => kept[i] < kept[j]
         /\ locations' = Append([i \in 1 .. k |-> locations[kept[i]]], n)
  BY DEF Rebind, KeepAndAppend
<1>1. PICK kept \in [1 .. k -> DOMAIN locations] :
         /\ {kept[i] : i \in 1 .. k} = P
         /\ locations' = Append([i \in 1 .. k |-> locations[kept[i]]], n)
  BY <1>0
<1> DEFINE r == [i \in 1 .. k |-> locations[kept[i]]]
<1>2. k \in Nat /\ \A i \in DOMAIN locations : locations[i] \in NodeIds
  OBVIOUS
<1>3. r \in Seq(NodeIds) /\ DOMAIN r = 1 .. k
  BY <1>2
<1>4. HostsOf(r) \cup {n[1]} = HostsOf(locations) \cup {n[1]}
  <2>1. \A i \in 1 .. k : r[i] = locations[kept[i]] /\ kept[i] \in DOMAIN locations
    OBVIOUS
  <2>2. \A j \in DOMAIN locations : locations[j][1] # n[1] => \E i \in 1 .. k : kept[i] = j
    BY <1>1
  <2> HIDE DEF r
  <2>3. \A i \in DOMAIN r : r[i][1] \in HostsOf(locations)
    BY <1>3, <2>1 DEF HostsOf
  <2>4. \A j \in DOMAIN locations : locations[j][1] \in HostsOf(r) \cup {n[1]}
    <3> TAKE j \in DOMAIN locations
    <3>1. CASE locations[j][1] # n[1]
      <4>1. PICK i \in 1 .. k : kept[i] = j
        BY <2>2, <3>1
      <4>2. i \in DOMAIN r /\ r[i] = locations[j]
        BY <1>3, <2>1, <4>1
      <4> QED BY <4>2 DEF HostsOf
    <3> QED BY <3>1
  <2> QED BY <2>3, <2>4 DEF HostsOf
<1>5. locations' = Append(r, n)
  BY <1>1
<1> HIDE DEF r
<1> QED BY <1>3, <1>4, <1>5, Appended

\* The head and the tail of a list of node ids.
LEMMA HeadTail ==
    ASSUME NEW s \in Seq(NodeIds), s # <<>>
    PROVE  /\ Head(s) \in NodeIds /\ Tail(s) \in Seq(NodeIds)
           /\ HostsOf(s) \subseteq HostsOf(Tail(s)) \cup {Head(s)[1]}
<1>1. /\ Head(s) \in NodeIds /\ Tail(s) \in Seq(NodeIds) /\ Len(s) \in Nat /\ Len(s) > 0
      /\ DOMAIN s = 1 .. Len(s) /\ DOMAIN Tail(s) = 1 .. Len(s) - 1 /\ s[1] = Head(s)
      /\ \A j \in 1 .. Len(s) - 1 : Tail(s)[j] = s[j + 1]
  OBVIOUS
<1>2. \A i \in DOMAIN s : s[i][1] \in HostsOf(Tail(s)) \cup {Head(s)[1]}
  <2> TAKE i \in DOMAIN s
  <2>1. CASE i = 1
    BY <1>1, <2>1
  <2>2. CASE i # 1
    <3>1. i - 1 \in 1 .. Len(s) - 1 /\ (i - 1) + 1 = i
      BY <1>1, <2>2
    <3>2. i - 1 \in DOMAIN Tail(s) /\ Tail(s)[i - 1] = s[i]
      BY <1>1, <3>1
    <3> QED BY <3>2 DEF HostsOf
  <2> QED BY <2>1, <2>2
<1> QED BY <1>1, <1>2 DEF HostsOf

------------------------------------------------------------------------------
(* Types are kept *)

LEMMA TypesImply == TInv => TypeOK
BY DEF TInv, TypeOK, RowTypes, ThreadTypes, NodeTypes, ListTypes

LEMMA InitTypes == Init => TInv
<1> SUFFICES ASSUME Init PROVE TInv
  OBVIOUS
<1>1. <<Home, 1>> \in NodeIds /\ <<<<Home, 1>>>> \in Seq(NodeIds)
  BY ReplicaHostsAssumption DEF NodeIds
<1>2. Fresh \in ThreadStates /\ Fresh.pc = "idle"
  <2>1. <<>> \in Seq(NodeIds) /\ {} \in SUBSET NodeIds /\ "idle" \in Labels
    BY DEF Labels
  <2> QED BY <2>1 DEF Fresh, ThreadStates
<1>3. "ready" \in Labels
  BY DEF Labels
<1>4. [Fresh EXCEPT !.pc = "ready"] \in ThreadStates /\ [Fresh EXCEPT !.pc = "ready"].pc = "ready"
  BY <1>2, <1>3 DEF ThreadStates
<1>5. ThreadTypes
  BY <1>2, <1>4 DEF Init, ThreadTypes
<1>6. Placed
  <2> SUFFICES ASSUME NEW t \in Threads PROVE Fits(t, thread[t])
    BY DEF Placed
  <2>1. thread[t].pc = IF t = "replicate" THEN "ready" ELSE "idle"
    BY <1>2, <1>4 DEF Init
  <2> QED BY <2>1, ThreadLabels DEF Fits, Aimless, Threads
<1>7. RowTypes /\ NodeTypes /\ msgs \subseteq Messages
  <2>1. /\ active \subseteq NodeIds /\ boot \in [Hosts -> Nat]
        /\ disk \in [Hosts -> {"good", "absent"}]
    BY DEF Init, NodeIds
  <2>2. {"good", "absent"} \subseteq DiskStates
    BY DEF DiskStates
  <2> QED BY <2>1, <2>2 DEF Init, RowTypes, NodeTypes, LifecycleStates, ProtectionStates
<1> QED BY <1>1, <1>5, <1>6, <1>7 DEF Init, TInv, ListTypes

\* What a thread asked for is what it waits for.
Asks(t) ==
    \/ msgs' = msgs /\ thread'[t].pc # "wait"
    \/ /\ thread'[t].pc = "wait"
       /\ thread'[t].call \in Messages
       /\ msgs' \subseteq msgs \cup {thread'[t].call}

\* How replicate_to_policy moves.
LEMMA ReplicateMoves ==
    ASSUME TInv, ReplicateStart \/ ReplicateNext \/ ReplicateReread
    PROVE  Moved("replicate") /\ Asks("replicate") /\ thread'["replicate"].pc # "add"
<1> DEFINE t == "replicate"
<1>1. /\ RowTypes /\ locations \in Seq(NodeIds) /\ ThreadTypes /\ NodeTypes
      /\ msgs \subseteq Messages /\ Placed
  BY DEF TInv, ListTypes
<1>2. t \in Threads /\ thread[t] \in ThreadStates /\ Fits(t, thread[t])
  BY <1>1 DEF Threads, ThreadTypes, Placed
<1>3. /\ thread[t].snap \in Seq(NodeIds) /\ thread[t].todo \in SUBSET NodeIds
  BY <1>2, States
<1>4. ASSUME NEW s \in ThreadStates, s.pc = "loop",
             thread' = [thread EXCEPT ![t] = s], msgs' = msgs
      PROVE  Moved(t) /\ Asks(t) /\ thread'[t].pc # "add"
  <2>1. Fits(t, s) /\ thread'[t] = s
    BY <1>1, <1>2, <1>4, ThreadLabels DEF Fits, Aimless, ThreadTypes
  <2> QED BY <1>4, <2>1 DEF Moved, Asks
<1>5. CASE ReplicateStart
  <2> DEFINE todo == {n \in active : \A i \in DOMAIN locations : locations[i] # n}
  <2> DEFINE s == [thread[t] EXCEPT !.pc = "loop", !.snap = locations, !.todo = todo]
  <2>1. thread' = [thread EXCEPT ![t] = s] /\ msgs' = msgs
    BY <1>5 DEF ReplicateStart
  <2>2. todo \in SUBSET NodeIds /\ "loop" \in Labels
    BY <1>1 DEF NodeTypes, Labels
  <2> HIDE DEF todo
  <2>3. s \in ThreadStates /\ s.pc = "loop"
    BY <1>1, <1>2, <2>2 DEF ThreadStates
  <2> HIDE DEF s
  <2> QED BY <1>4, <2>1, <2>3
<1>6. CASE ReplicateNext
  <2>1. CASE Return(t) /\ UNCHANGED msgs
    BY <1>1, <1>2, <2>1, Returns DEF Asks
  <2>2. CASE /\ thread[t].snap # <<>>
             /\ \E n \in thread[t].todo :
                   Call(t, [thread[t] EXCEPT !.target = n, !.todo = @ \ {n}],
                        "allow", thread[t].snap[1], n)
    <3>1. PICK n \in thread[t].todo :
             Call(t, [thread[t] EXCEPT !.target = n, !.todo = @ \ {n}],
                  "allow", thread[t].snap[1], n)
      BY <2>2
    <3> DEFINE th == [thread[t] EXCEPT !.target = n, !.todo = @ \ {n}]
    <3>2. n \in NodeIds /\ thread[t].snap[1] \in NodeIds
      BY <1>3, <2>2
    <3>3. th \in ThreadStates /\ th.target = n
      BY <1>2, <1>3, <3>2 DEF ThreadStates
    <3>4. "allow" \in OpsOf(t)
      BY ThreadLabels
    <3>5. Call(t, th, "allow", thread[t].snap[1], n)
      BY <3>1
    <3> HIDE DEF th
    <3> QED BY <1>1, <1>2, <3>2, <3>3, <3>4, <3>5, Calls DEF Asks
  <2> QED BY <1>6, <2>1, <2>2 DEF ReplicateNext
<1>7. CASE ReplicateReread
  <2> DEFINE s == [thread[t] EXCEPT !.pc = "loop", !.snap = locations]
  <2>1. thread' = [thread EXCEPT ![t] = s] /\ msgs' = msgs
    BY <1>7 DEF ReplicateReread
  <2>2. "loop" \in Labels
    BY DEF Labels
  <2>3. s \in ThreadStates /\ s.pc = "loop"
    BY <1>1, <1>2, <2>2 DEF ThreadStates
  <2> HIDE DEF s
  <2> QED BY <1>4, <2>1, <2>3
<1> QED BY <1>5, <1>6, <1>7

LEMMA ReplicateTypes ==
    ASSUME TInv, ReplicateStart \/ ReplicateNext \/ ReplicateReread
    PROVE  TInv'
<1>1. UNCHANGED <<rowVars, active, nodeVars>>
  BY DEF ReplicateStart, ReplicateNext, ReplicateReread
<1>2. ThreadTypes' /\ Placed' /\ Asks("replicate")
  BY ReplicateMoves, MovedKeeps DEF TInv, Threads
<1> QED BY <1>1, <1>2 DEF TInv, ListTypes, RowTypes, NodeTypes, rowVars, nodeVars, Asks

\* How a verification moves.
LEMMA VerifyMoves ==
    ASSUME TInv, VerifyStart \/ VerifyRecord
    PROVE  Moved("verify") /\ Asks("verify") /\ thread'["verify"].pc # "add"
<1> DEFINE t == "verify"
<1>1. ThreadTypes /\ NodeTypes /\ Placed /\ t \in Threads
  BY DEF TInv, Threads
<1>2. CASE VerifyStart
  <2>1. PICK n \in active : Call(t, Fresh, "verify", n, n)
    BY <1>2 DEF VerifyStart
  <2>2. n \in NodeIds /\ Fresh \in ThreadStates
    <3>1. <<>> \in Seq(NodeIds) /\ {} \in SUBSET NodeIds /\ "idle" \in Labels
      BY DEF Labels
    <3> QED BY <1>1, <3>1 DEF Fresh, ThreadStates, NodeTypes
  <2> QED BY <1>1, <2>1, <2>2, ThreadLabels, Calls DEF Asks
<1>3. CASE VerifyRecord
  BY <1>1, <1>3, Returns DEF VerifyRecord, Asks
<1> QED BY <1>2, <1>3

LEMMA VerifyTypes ==
    ASSUME TInv, VerifyStart \/ VerifyRecord
    PROVE  TInv'
<1>1. ThreadTypes' /\ Placed' /\ Asks("verify")
  BY VerifyMoves, MovedKeeps DEF TInv, Threads
<1>2. /\ integrity' \in {integrity, "valid", "corrupt"}
      /\ UNCHANGED <<lifecycle, protection, locations, reserved, active, nodeVars>>
  BY DEF VerifyStart, VerifyRecord, SetIntegrity, rowVars
<1> QED BY <1>1, <1>2 DEF TInv, ListTypes, RowTypes, NodeTypes, nodeVars, Asks

\* How a retirement moves.
LEMMA RetireMoves ==
    ASSUME TInv, RetireStart \/ RetireCheck \/ RetireDelete \/ RetireMark
    PROVE  /\ Moved("retire")
           /\ RetireStart => /\ thread'["retire"].pc = "check"
                             /\ thread'["retire"].snap = locations
           /\ RetireCheck => /\ thread'["retire"].pc \in {"idle", "delete", "done"}
                             /\ thread'["retire"].pc = "delete" =>
                                   thread'["retire"].snap = thread["retire"].snap
           /\ RetireDelete => /\ thread'["retire"].pc = "wait"
                              /\ thread'["retire"].snap = Tail(thread["retire"].snap)
                              /\ thread'["retire"].call \in Messages
                              /\ thread'["retire"].call.op = "delete"
                              /\ thread'["retire"].call.node = Head(thread["retire"].snap)
                              /\ msgs' \subseteq msgs \cup {thread'["retire"].call}
           /\ RetireMark => thread'["retire"].pc \in {"idle", "done"}
           /\ msgs' \subseteq Messages
<1> DEFINE t == "retire"
<1>1. /\ locations \in Seq(NodeIds) /\ ThreadTypes /\ msgs \subseteq Messages /\ Placed
  BY DEF TInv, ListTypes
<1>2. t \in Threads /\ thread[t] \in ThreadStates /\ Fits(t, thread[t])
  BY <1>1 DEF Threads, ThreadTypes, Placed
<1>3. thread[t].snap \in Seq(NodeIds)
  BY <1>2, States
<1>4. CASE RetireStart
  <2> DEFINE s == [thread[t] EXCEPT !.pc = "check", !.snap = locations]
  <2>1. thread' = [thread EXCEPT ![t] = s] /\ msgs' = msgs
    BY <1>4 DEF RetireStart
  <2>2. "check" \in Labels
    BY DEF Labels
  <2>3. s \in ThreadStates /\ s.pc = "check" /\ s.snap = locations
    BY <1>1, <1>2, <2>2 DEF ThreadStates
  <2>4. ~RetireCheck /\ ~RetireDelete /\ ~RetireMark
    BY <1>4 DEF RetireStart, RetireCheck, RetireDelete, RetireMark
  <2> HIDE DEF s
  <2>5. Fits(t, s)
    BY <2>3, ThreadLabels DEF Fits, Aimless
  <2>6. thread'[t] = s
    BY <1>1, <1>2, <2>1 DEF ThreadTypes
  <2>7. Moved(t)
    BY <2>1, <2>3, <2>5 DEF Moved
  <2> QED BY <1>1, <2>1, <2>3, <2>4, <2>6, <2>7
<1>5. CASE RetireCheck
  <2>1. ~RetireStart /\ ~RetireDelete /\ ~RetireMark /\ msgs' = msgs
    BY <1>5 DEF RetireStart, RetireCheck, RetireDelete, RetireMark
  <2>2. CASE Return(t)
    BY <1>1, <1>2, <2>1, <2>2, Returns
  <2>3. CASE Goto(t, "delete")
    <3>1. "delete" \in LabelsOf(t) \ {"wait", "fetch"} /\ thread[t].pc \notin Aimless
      BY <1>5, ThreadLabels DEF RetireCheck, Aimless
    <3> QED BY <1>1, <1>2, <2>1, <2>3, <3>1, Gotos
  <2> QED BY <1>5, <2>2, <2>3 DEF RetireCheck
<1>6. CASE RetireDelete
  <2> DEFINE th == [thread[t] EXCEPT !.snap = Tail(@)]
  <2>1. ~RetireStart /\ ~RetireCheck /\ ~RetireMark
    BY <1>6 DEF RetireStart, RetireCheck, RetireDelete, RetireMark
  <2>2. /\ thread[t].snap # <<>>
        /\ Call(t, th, "delete", Head(thread[t].snap), Head(thread[t].snap))
    BY <1>6 DEF RetireDelete
  <2>3. Head(thread[t].snap) \in NodeIds /\ Tail(thread[t].snap) \in Seq(NodeIds)
    BY <1>3, <2>2, HeadTail
  <2>4. th \in ThreadStates /\ th.snap = Tail(thread[t].snap)
    BY <1>2, <2>3 DEF ThreadStates
  <2>5. "delete" \in OpsOf(t)
    BY ThreadLabels
  <2> HIDE DEF th
  <2> QED BY <1>1, <1>2, <2>1, <2>2, <2>3, <2>4, <2>5, Calls
<1>7. CASE RetireMark
  <2>1. ~RetireStart /\ ~RetireCheck /\ ~RetireDelete
    BY <1>7 DEF RetireStart, RetireCheck, RetireDelete, RetireMark
  <2> QED BY <1>1, <1>2, <1>7, <2>1, Returns DEF RetireMark
<1> QED BY <1>4, <1>5, <1>6, <1>7

LEMMA RetireTypes ==
    ASSUME TInv, RetireStart \/ RetireCheck \/ RetireDelete \/ RetireMark
    PROVE  TInv'
<1>1. UNCHANGED <<integrity, protection, reserved, active, nodeVars>>
  BY DEF RetireStart, RetireCheck, RetireDelete, RetireMark, rowVars
<1>2. lifecycle' \in {lifecycle, "RETIRED"} /\ locations' \in {locations, <<>>}
  BY DEF RetireStart, RetireCheck, RetireDelete, RetireMark, rowVars
<1>3. "RETIRED" \in LifecycleStates /\ <<>> \in Seq(NodeIds)
  BY DEF LifecycleStates
<1>4. Moved("retire") /\ msgs' \subseteq Messages /\ "retire" \in Threads
  BY RetireMoves DEF Threads
<1>5. ThreadTypes' /\ Placed'
  BY <1>4, MovedKeeps DEF TInv
<1> QED BY <1>1, <1>2, <1>3, <1>4, <1>5 DEF TInv, ListTypes, RowTypes, NodeTypes, nodeVars

RestoreStep ==
    \/ RestoreReserve \/ RestorePending \/ RestoreProvide \/ RestoreApply
    \/ RestoreCommit \/ RestoreAbort \/ RestorePutBack \/ RestoreRelease

\* A restore is about one node all the time.
LEMMA RestoreAims ==
    ASSUME TInv, RestoreStep
    PROVE  /\ thread["restore"].pc \notin Aimless \cup {"wait"}
           /\ thread["restore"].target \in NodeIds
           /\ thread["restore"] \in ThreadStates
           /\ thread["restore"].snap \in Seq(NodeIds)
<1>1. thread["restore"].pc \in {"reserve", "pending", "provide", "apply", "commit", "abort",
                                "put_back", "release"}
  BY DEF RestoreStep, RestoreReserve, RestorePending, RestoreProvide, RestoreApply,
         RestoreCommit, RestoreAbort, RestorePutBack, RestoreRelease
<1>2. Fits("restore", thread["restore"]) /\ thread["restore"] \in ThreadStates
  BY DEF TInv, Placed, ThreadTypes, Threads
<1> QED BY <1>1, <1>2, States DEF Fits, Aimless

LEMMA RestoreGoes ==
    ASSUME TInv, RestoreStep,
           NEW l \in {"pending", "abort", "release"}, Goto("restore", l), msgs' = msgs
    PROVE  Moved("restore") /\ Asks("restore") /\ thread'["restore"].pc # "add"
<1>1. l \in LabelsOf("restore") \ {"wait", "fetch"} /\ "restore" \in Threads
  BY ThreadLabels DEF Threads
<1>2. ThreadTypes /\ Placed /\ thread["restore"].pc \notin Aimless
  BY RestoreAims DEF TInv
<1>3. Moved("restore") /\ thread'["restore"].pc = l
  BY <1>1, <1>2, Gotos
<1> QED BY <1>3 DEF Asks

LEMMA RestoreAsks ==
    ASSUME TInv, RestoreStep,
           NEW op \in {"probe", "allow", "restore", "unstage"},
           NEW node \in NodeIds, NEW peer \in NodeIds,
           Call("restore", thread["restore"], op, node, peer)
    PROVE  Moved("restore") /\ Asks("restore") /\ thread'["restore"].pc # "add"
<1>1. op \in OpsOf("restore") /\ op # "fetch" /\ "restore" \in Threads
  BY ThreadLabels DEF Threads
<1>2. /\ ThreadTypes /\ Placed
      /\ thread["restore"].target \in NodeIds /\ thread["restore"] \in ThreadStates
  BY RestoreAims DEF TInv
<1> QED BY <1>1, <1>2, Calls DEF Asks

LEMMA RestoreMoves ==
    ASSUME TInv, RestoreStep
    PROVE  Moved("restore") /\ Asks("restore") /\ thread'["restore"].pc # "add"
<1> DEFINE th == thread["restore"]
<1>1. /\ th.target \in NodeIds /\ active \subseteq NodeIds
      /\ ThreadTypes /\ "restore" \in Threads
  BY RestoreAims DEF TInv, NodeTypes, Threads
<1>2. CASE RestoreReserve
  BY <1>2, RestoreGoes DEF RestoreReserve
<1>3. CASE RestorePending
  BY <1>1, <1>3, RestoreGoes, RestoreAsks DEF RestorePending
<1>4. CASE RestoreProvide
  <2>1. CASE \E n \in active : Call("restore", th, "allow", n, th.target)
    BY <1>1, <2>1, RestoreAsks
  <2>2. CASE Goto("restore", "abort") /\ msgs' = msgs
    BY <2>2, RestoreGoes
  <2> QED BY <1>4, <2>1, <2>2 DEF RestoreProvide
<1>5. CASE RestoreApply
  BY <1>1, <1>5, RestoreAsks DEF RestoreApply
<1>6. CASE RestoreCommit
  BY <1>6, RestoreGoes DEF RestoreCommit
<1>7. CASE RestoreAbort
  BY <1>1, <1>7, RestoreAsks DEF RestoreAbort
<1>8. CASE RestorePutBack
  BY <1>8, RestoreGoes DEF RestorePutBack
<1>9. CASE RestoreRelease
  <2>1. Return("restore") /\ msgs' = msgs
    BY <1>9 DEF RestoreRelease
  <2> QED BY <1>1, <2>1, Returns DEF Asks
<1> QED BY <1>2, <1>3, <1>4, <1>5, <1>6, <1>7, <1>8, <1>9 DEF RestoreStep

\* What a restore does to the row.
LEMMA RestoreRow ==
    ASSUME RestoreStep
    PROVE  /\ lifecycle' \in {lifecycle, "RESTORE_PENDING", "RESTORING", "RESTORED", "AVAILABLE"}
           /\ integrity' \in {integrity, "pending", "valid"}
           /\ reserved' \in {reserved, TRUE, FALSE}
           /\ UNCHANGED <<protection, locations, active, nodeVars>>
BY DEF RestoreStep, RestoreReserve, RestorePending, RestoreProvide, RestoreApply,
       RestoreCommit, RestoreAbort, RestorePutBack, RestoreRelease, SetLifecycle, rowVars

LEMMA RestoreStepTypes ==
    ASSUME TInv, RestoreStep
    PROVE  TInv'
<1>1. {"RESTORE_PENDING", "RESTORING", "RESTORED", "AVAILABLE"} \subseteq LifecycleStates
  BY DEF LifecycleStates
<1>2. Moved("restore") /\ Asks("restore") /\ "restore" \in Threads
  BY RestoreMoves DEF Threads
<1>3. ThreadTypes' /\ Placed'
  BY <1>2, MovedKeeps DEF TInv
<1> QED BY <1>1, <1>2, <1>3, RestoreRow DEF TInv, ListTypes, RowTypes, NodeTypes, nodeVars, Asks

LEMMA RestoreStartMoves ==
    ASSUME TInv, NEW n \in active, RestoreStart(n)
    PROVE  Moved("restore") /\ thread'["restore"].pc = "reserve"
<1> DEFINE s == [thread["restore"] EXCEPT !.pc = "reserve", !.target = n, !.snap = locations]
<1>1. thread["restore"] \in ThreadStates /\ n \in NodeIds /\ locations \in Seq(NodeIds)
  BY DEF TInv, ThreadTypes, Threads, NodeTypes, ListTypes
<1>2. thread' = [thread EXCEPT !["restore"] = s] /\ thread'["restore"] = s
  BY DEF RestoreStart, TInv, ThreadTypes, Threads
<1>3. "reserve" \in Labels
  BY DEF Labels
<1>4. s \in ThreadStates /\ s.pc = "reserve" /\ s.target = n
  BY <1>1, <1>3 DEF ThreadStates
<1> HIDE DEF s
<1>5. Fits("restore", s)
  BY <1>1, <1>4, ThreadLabels DEF Fits
<1> QED BY <1>2, <1>4, <1>5 DEF Moved

\* The steps that replicate and restore share.
LEMMA FetchMoves ==
    ASSUME TInv, NEW t \in Threads, SendFetch(t)
    PROVE  /\ t \in {"replicate", "restore"}
           /\ Moved(t) /\ Asks(t) /\ thread'[t].pc = "wait" /\ thread'[t].call.op = "fetch"
<1>1. /\ ThreadTypes /\ Placed /\ thread[t] \in ThreadStates /\ Fits(t, thread[t])
      /\ thread[t].pc = "fetch"
  BY DEF TInv, ThreadTypes, Placed, SendFetch
<1>2. t \in {"replicate", "restore"}
  BY <1>1, ThreadLabels DEF Fits, Threads
<1>3. thread[t].target \in NodeIds /\ thread[t].call \in Messages /\ "fetch" \in OpsOf(t)
  BY <1>1, <1>2, ThreadLabels DEF Fits, Aimless
<1>4. thread[t].call.node \in NodeIds
  BY <1>3 DEF Messages
<1>5. Call(t, thread[t], "fetch", thread[t].target, thread[t].call.node)
  BY DEF SendFetch
<1> QED BY <1>1, <1>2, <1>3, <1>4, <1>5, Calls DEF Asks

LEMMA CopyMoves ==
    ASSUME TInv, NEW t \in Threads, RecordCopy(t)
    PROVE  /\ t \in {"replicate", "restore"} /\ thread[t].pc = "add"
           /\ thread[t].target \in NodeIds
           /\ Moved(t) /\ thread'[t].pc \in {"reread", "apply"}
           /\ locations' \in Seq(NodeIds)
           /\ HostsOf(locations') = HostsOf(locations) \cup {thread[t].target[1]}
<1>1. /\ ThreadTypes /\ Placed /\ Fits(t, thread[t]) /\ locations \in Seq(NodeIds)
      /\ thread[t].pc = "add"
  BY DEF TInv, ListTypes, ThreadTypes, Placed, RecordCopy
<1>2. t \in {"replicate", "restore"}
  BY <1>1, ThreadLabels DEF Fits, Threads
<1>3. thread[t].target \in NodeIds
  BY <1>1, <1>2 DEF Fits, Aimless
<1> DEFINE l == IF t = "replicate" THEN "reread" ELSE "apply"
<1>4. l \in LabelsOf(t) \ {"wait", "fetch"} /\ thread[t].pc \notin Aimless
  BY <1>1, <1>2, ThreadLabels DEF Aimless
<1>5. Goto(t, l) /\ AddLocation(thread[t].target)
  BY DEF RecordCopy
<1>6. l \in {"reread", "apply"}
  OBVIOUS
<1> HIDE DEF l
<1> QED BY <1>1, <1>2, <1>3, <1>4, <1>5, <1>6, Adds, Gotos

LEMMA SharedTypes ==
    ASSUME TInv, NEW t \in Threads, SendFetch(t) \/ RecordCopy(t) \/ GiveUp(t)
    PROVE  TInv'
<1>1. CASE SendFetch(t)
  <2>1. ThreadTypes' /\ Placed' /\ Asks(t)
    BY <1>1, FetchMoves, MovedKeeps DEF TInv
  <2> QED BY <1>1, <2>1
        DEF SendFetch, TInv, ListTypes, RowTypes, NodeTypes, rowVars, nodeVars, Asks
<1>2. CASE RecordCopy(t)
  <2>1. ThreadTypes' /\ Placed' /\ locations' \in Seq(NodeIds)
    BY <1>2, CopyMoves, MovedKeeps DEF TInv
  <2> QED BY <1>2, <2>1 DEF RecordCopy, TInv, ListTypes, RowTypes, NodeTypes, nodeVars
<1>3. CASE GiveUp(t)
  <2>1. /\ thread[t].pc = "wait" /\ Continue(t, "error")
        /\ UNCHANGED <<rowVars, active, nodeVars, msgs>>
    BY <1>3 DEF GiveUp
  <2>2. ThreadTypes' /\ Placed'
    BY <2>1, Continues, MovedKeeps DEF TInv
  <2> QED BY <2>1, <2>2 DEF TInv, ListTypes, RowTypes, NodeTypes, rowVars, nodeVars
<1> QED BY <1>1, <1>2, <1>3

\* A request handled by a node.
Handled(m) ==
    \/ AllowFetch(m) \/ FetchBegin(m) \/ Probe(m) \/ CheckCopy(m) \/ Delete(m) \/ Unstage(m)

\* The nodes change no row; what they answer goes to the thread that asked.
LEMMA HandledMoves ==
    ASSUME TInv, NEW m \in msgs, Handled(m)
    PROVE  /\ m \in Messages /\ msgs' = msgs \ {m}
           /\ UNCHANGED <<rowVars, active, boot, beats>>
           /\ ThreadTypes' /\ Placed'
           /\ \/ \E r : Answer(m, r) /\ copying' \subseteq copying
                          /\ (m.op = "fetch" => r # "ok")
                          /\ (~Delete(m) => disk' = disk)
              \/ thread' = thread /\ m.op = "fetch" /\ copying' = copying \cup {m} /\ disk' = disk
           /\ tokens' \subseteq tokens \cup {<<m.node, m.by>>}
<1>1. m \in Messages /\ ThreadTypes /\ Placed
  BY DEF TInv, ListTypes
<1>2. CASE AllowFetch(m)
  BY <1>1, <1>2, Answers DEF AllowFetch, Receive
<1>3. CASE FetchBegin(m)
  <2>1. CASE /\ copying' = copying \cup {m}
             /\ UNCHANGED <<thread, tokens>>
    BY <1>1, <1>3, <2>1 DEF FetchBegin, Receive, ThreadTypes, Placed
  <2>2. CASE \E r \in {"refused", "error"} : Answer(m, r) /\ SpendToken(m) /\ UNCHANGED copying
    BY <1>1, <1>3, <2>2, Answers DEF FetchBegin, Receive, SpendToken
  <2> QED BY <1>3, <2>1, <2>2 DEF FetchBegin
<1>4. CASE Probe(m)
  BY <1>1, <1>4, Answers DEF Probe, Receive, nodeVars
<1>5. CASE CheckCopy(m)
  <2>1. \E r : Answer(m, r)
    BY <1>5 DEF CheckCopy
  <2> QED BY <1>1, <1>5, <2>1, Answers DEF CheckCopy, Receive, nodeVars
<1>6. CASE Delete(m)
  <2>1. \E r : Answer(m, r)
    BY <1>6 DEF Delete
  <2> QED BY <1>1, <1>6, <2>1, Answers DEF Delete, Receive
<1>7. CASE Unstage(m)
  BY <1>1, <1>7, Answers DEF Unstage, Receive
<1> QED BY <1>2, <1>3, <1>4, <1>5, <1>6, <1>7 DEF Handled

\* What a deletion may leave.
LEMMA Deletes ==
    ASSUME TInv, NEW m \in Messages, Delete(m)
    PROVE  /\ m.op = "delete" /\ m.node[1] \in Hosts
           /\ \E left \in DiskStates :
                 /\ disk' = [disk EXCEPT ![m.node[1]] = left]
                 /\ disk[m.node[1]] = "absent" => left = "absent"
                 /\ Answer(m, IF left = "absent" THEN "ok" ELSE "refused")
<1>1. m.node[1] \in Hosts
  BY DEF Messages, NodeIds
<1>2. DeleteCommitted(m.node[1]) \subseteq DiskStates
  BY <1>1 DEF DeleteCommitted, TInv, NodeTypes, DiskStates
<1>3. disk[m.node[1]] = "absent" => DeleteCommitted(m.node[1]) = {"absent"}
  BY DEF DeleteCommitted
<1> QED BY <1>1, <1>2, <1>3 DEF Delete, Receive

LEMMA HandledTypes ==
    ASSUME TInv, NEW m \in msgs, Handled(m)
    PROVE  TInv'
<1>1. disk' \in [Hosts -> DiskStates]
  <2>1. CASE Delete(m)
    BY <2>1, Deletes, HandledMoves DEF TInv, NodeTypes
  <2>2. CASE ~Delete(m)
    BY <2>2, HandledMoves DEF TInv, NodeTypes
  <2> QED BY <2>1, <2>2
<1>2. copying' \subseteq Messages
  BY HandledMoves DEF TInv, NodeTypes
<1>3. tokens' \subseteq NodeIds \X Threads
  <2>1. <<m.node, m.by>> \in NodeIds \X Threads
    BY HandledMoves DEF Messages
  <2> QED BY <2>1, HandledMoves DEF TInv, NodeTypes
<1>4. RowTypes' /\ locations' \in Seq(NodeIds) /\ msgs' \subseteq Messages
  BY HandledMoves DEF TInv, RowTypes, ListTypes, rowVars
<1>5. active' \subseteq NodeIds /\ boot' \in [Hosts -> Nat] /\ beats' \subseteq NodeIds
  BY HandledMoves DEF TInv, NodeTypes
<1> QED BY <1>1, <1>2, <1>3, <1>4, <1>5, HandledMoves DEF TInv, NodeTypes, ListTypes

\* The end of a replication: the copy is there and good, and the target is told to
\* record it, or nothing changes on disk.
LEMMA FetchEnds ==
    ASSUME TInv, NEW m \in copying, FetchEnd(m)
    PROVE  /\ m \in Messages /\ m.node[1] \in Hosts
           /\ copying' = copying \ {m}
           /\ UNCHANGED <<rowVars, active, boot, beats, msgs>>
           /\ tokens' \subseteq tokens
           /\ \/ /\ disk[m.node[1]] = "absent"
                 /\ disk' = [disk EXCEPT ![m.node[1]] = "good"]
                 /\ Answer(m, "ok")
              \/ disk' = disk /\ \E r \in {"refused", "error"} : Answer(m, r)
<1>1. m \in Messages /\ m.node[1] \in Hosts
  BY DEF TInv, NodeTypes, Messages, NodeIds
<1> QED BY <1>1 DEF FetchEnd, FetchedOk, CanPromote, SpendToken

LEMMA FetchEndTypes ==
    ASSUME TInv, NEW m \in copying, FetchEnd(m)
    PROVE  TInv'
<1>1. ThreadTypes' /\ Placed'
  BY FetchEnds, Answers DEF TInv
<1>2. disk' \in [Hosts -> DiskStates]
  BY FetchEnds DEF TInv, NodeTypes, DiskStates
<1> QED BY <1>1, <1>2, FetchEnds DEF TInv, NodeTypes, ListTypes, RowTypes, rowVars

\* Heartbeats and faults touch no thread.
Background ==
    \/ \E h \in Hosts : BeatSend(h) \/ NodeRestart(h) \/ Damage(h)
    \/ \E n \in beats : BeatApply(n)
    \/ \E n \in active : MarkStale(n)

\* What a restart does.
LEMMA Restarts ==
    ASSUME TInv, NEW h \in Hosts, NodeRestart(h)
    PROVE  /\ boot[h] \in Nat /\ boot' = [boot EXCEPT ![h] = @ + 1]
           /\ <<h, boot[h] + 1>> \in NodeIds /\ <<h, boot[h] + 1>>[1] = h
           /\ active' = active \cup {<<h, boot[h] + 1>>}
           /\ locations' \in Seq(NodeIds)
           /\ \/ HasCommitted(h) /\ HostsOf(locations') = HostsOf(locations) \cup {h}
              \/ locations' = locations
           /\ copying' \subseteq copying /\ tokens' \subseteq tokens /\ msgs' \subseteq msgs
           /\ UNCHANGED <<lifecycle, integrity, protection, reserved, thread, disk, beats>>
<1>1. boot[h] \in Nat /\ <<h, boot[h] + 1>> \in NodeIds /\ locations \in Seq(NodeIds)
  BY DEF TInv, NodeTypes, ListTypes, NodeIds
<1> DEFINE n == <<h, boot[h] + 1>>
<1>2. n[1] = h
  OBVIOUS
<1>3. IF HasCommitted(h) THEN Rebind(n) ELSE UNCHANGED locations
  BY DEF NodeRestart
<1>4. /\ boot' = [boot EXCEPT ![h] = @ + 1] /\ active' = active \cup {n}
      /\ copying' \subseteq copying /\ tokens' \subseteq tokens /\ msgs' \subseteq msgs
      /\ UNCHANGED <<lifecycle, integrity, protection, reserved, thread, disk, beats>>
  BY DEF NodeRestart
<1>5. /\ locations' \in Seq(NodeIds)
      /\ \/ HasCommitted(h) /\ HostsOf(locations') = HostsOf(locations) \cup {h}
         \/ locations' = locations
  <2> HIDE DEF n
  <2>1. CASE HasCommitted(h)
    BY <1>1, <1>2, <1>3, <2>1, Rebinds DEF n
  <2>2. CASE ~HasCommitted(h)
    BY <1>1, <1>3, <2>2
  <2> QED BY <2>1, <2>2
<1> QED BY <1>1, <1>2, <1>4, <1>5

\* What a heartbeat does.
LEMMA Beats ==
    ASSUME TInv, NEW n \in beats, BeatApply(n)
    PROVE  /\ n \in NodeIds
           /\ beats' \subseteq beats
           /\ locations' \in Seq(NodeIds)
           /\ HostsOf(locations') \in {HostsOf(locations), HostsOf(locations) \cup {n[1]}}
           /\ UNCHANGED <<lifecycle, integrity, protection, reserved, active, thread, boot, disk,
                          copying, tokens, msgs>>
<1>1. n \in NodeIds /\ locations \in Seq(NodeIds)
  BY DEF TInv, NodeTypes, ListTypes
<1> QED BY <1>1, Rebinds DEF BeatApply

LEMMA BackgroundTypes ==
    ASSUME TInv, Background
    PROVE  TInv'
<1>1. CASE \E h \in Hosts : BeatSend(h)
  BY <1>1 DEF BeatSend, TInv, NodeTypes, ListTypes, RowTypes, ThreadTypes, Placed, NodeIds, rowVars
<1>2. CASE \E h \in Hosts : NodeRestart(h)
  <2>1. PICK h \in Hosts : NodeRestart(h)
    BY <1>2
  <2>2. boot' \in [Hosts -> Nat] /\ active' \subseteq NodeIds
    <3> DEFINE n == <<h, boot[h] + 1>>
    <3>1. /\ boot[h] \in Nat /\ boot' = [boot EXCEPT ![h] = @ + 1]
          /\ n \in NodeIds /\ active' = active \cup {n}
      BY <2>1, Restarts
    <3>2. boot' \in [Hosts -> Nat]
      BY <3>1 DEF TInv, NodeTypes
    <3> HIDE DEF n
    <3> QED BY <3>1, <3>2 DEF TInv, NodeTypes
  <2> QED BY <2>1, <2>2, Restarts DEF TInv, NodeTypes, ListTypes, RowTypes, ThreadTypes, Placed
<1>3. CASE \E h \in Hosts : Damage(h)
  <2>1. disk' \in [Hosts -> DiskStates]
    <3>1. "bad" \in DiskStates
      BY DEF DiskStates
    <3> QED BY <1>3, <3>1 DEF Damage, TInv, NodeTypes
  <2>2. UNCHANGED <<rowVars, active, thread, boot, copying, tokens, beats, msgs>>
    BY <1>3 DEF Damage
  <2> QED BY <2>1, <2>2 DEF TInv, NodeTypes, ListTypes, RowTypes, ThreadTypes, Placed, rowVars
<1>4. CASE \E n \in beats : BeatApply(n)
  BY <1>4, Beats DEF TInv, NodeTypes, ListTypes, RowTypes, ThreadTypes, Placed
<1>5. CASE \E n \in active : MarkStale(n)
  BY <1>5 DEF MarkStale, TInv, NodeTypes, ListTypes, RowTypes, ThreadTypes, Placed, rowVars,
                nodeVars
<1> QED BY <1>1, <1>2, <1>3, <1>4, <1>5 DEF Background

LEMMA RequestTypes ==
    ASSUME TInv, (\E p \in Protections : Protect(p)) \/ (\E n \in active : RestoreStart(n))
    PROVE  TInv'
<1>1. CASE \E p \in Protections : Protect(p)
  BY <1>1, ReplicaProtectionsAssumption
     DEF Protect, SetProtection, TInv, NodeTypes, ListTypes, RowTypes, ThreadTypes, Placed, nodeVars
<1>2. CASE \E n \in active : RestoreStart(n)
  <2>1. PICK n \in active : RestoreStart(n)
    BY <1>2
  <2>2. ThreadTypes' /\ Placed'
    BY <2>1, RestoreStartMoves, MovedKeeps DEF TInv, Threads
  <2> QED BY <2>1, <2>2 DEF RestoreStart, TInv, NodeTypes, ListTypes, RowTypes, rowVars, nodeVars
<1> QED BY <1>1, <1>2

\* Every step is one of these.
LEMMA Steps ==
    ASSUME Next
    PROVE  \/ ReplicateStart \/ ReplicateNext \/ ReplicateReread
           \/ VerifyStart \/ VerifyRecord
           \/ RetireStart \/ RetireCheck \/ RetireDelete \/ RetireMark
           \/ RestoreStep
           \/ \E p \in Protections : Protect(p)
           \/ \E n \in active : RestoreStart(n)
           \/ \E t \in Threads : SendFetch(t) \/ RecordCopy(t) \/ GiveUp(t)
           \/ \E m \in msgs : Handled(m)
           \/ \E m \in copying : FetchEnd(m)
           \/ Background
BY DEF Next, Request, ThreadStep, NodeStep, RestoreStep, Handled, Background

LEMMA NextTypes == TInv /\ [Next]_vars => TInv'
<1>1. CASE TInv /\ Next
  BY <1>1, Steps, ReplicateTypes, VerifyTypes, RetireTypes, RestoreStepTypes, RequestTypes,
     SharedTypes, HandledTypes, FetchEndTypes, BackgroundTypes
<1>2. CASE TInv /\ UNCHANGED vars
  BY <1>2 DEF TInv, NodeTypes, ListTypes, RowTypes, ThreadTypes, Placed, vars, rowVars, nodeVars
<1> QED BY <1>1, <1>2

LEMMA TypesInvariant == Spec => []TInv
BY InitTypes, NextTypes, PTL DEF Spec

\* Every variable has its type, whatever goes wrong.
THEOREM ReplicaTypes == Spec => []TypeOK
BY TypesInvariant, TypesImply, PTL

------------------------------------------------------------------------------
(* One request at a time *)

\* At most one thread is busy.
Sequential == \A t, u \in Threads : t = u \/ Quiet(t) \/ Quiet(u)

\* What is on its way to a node, or under way there, is waited for.
Awaited ==
    /\ \A m \in msgs \cup copying : Waiting(m)
    /\ msgs \cap copying = {}
    /\ \A m \in copying : m.op = "fetch"

\* A copy is made in directory h and not recorded yet.
Recording(h) ==
    \E t \in {"replicate", "restore"} : thread[t].pc = "add" /\ thread[t].target[1] = h

\* Every directory with something in it is listed, or is going to be; so is every one
\* that a heartbeat reports.
Located ==
    /\ \A h \in Hosts : disk[h] # "absent" => h \in HostsOf(locations) \/ Recording(h)
    /\ lifecycle # "RETIRED" =>
          \A n \in beats : n[1] \in HostsOf(locations) \/ Recording(n[1])

\* A retirement under way has found the row unprotected, and each directory that is
\* listed is deleted, is being deleted, or is still to be deleted.
Retiring ==
    ~Quiet("retire") =>
        /\ protection = "none"
        /\ lifecycle # "RETIRED" =>
              \A h \in HostsOf(locations) :
                  \/ disk[h] = "absent"
                  \/ h \in HostsOf(thread["retire"].snap)
                  \/ thread["retire"].pc = "wait" /\ thread["retire"].call.node[1] = h

\* What a retired row has lost no restore brings back.
RestoringLive == ~Quiet("restore") => lifecycle # "RETIRED"

QInv == Sequential /\ Awaited /\ Located /\ Retiring /\ RestoringLive

\* Requests are served one at a time and calls are not handled late.
OneByOne == {"rpc", "overlap"} \cap Faults = {}

\* The busy thread is the one that moves.
LEMMA OthersQuiet ==
    ASSUME Sequential, NEW t \in Threads, Moved(t), ThreadTypes, Placed, ~Quiet(t)
    PROVE  /\ Sequential'
           /\ \A u \in Threads : u # t => Quiet(u) /\ Quiet(u)' /\ thread'[u] = thread[u]
<1>1. \A u \in Threads : u # t => thread'[u] = thread[u] /\ Quiet(u)
  BY MovedKeeps DEF Sequential
<1> QED BY <1>1 DEF Sequential, Quiet

\* A request starts when nobody is busy.
LEMMA StartsAlone ==
    ASSUME OneByOne, MayStart, NEW t \in Threads, Moved(t), ThreadTypes, Placed
    PROVE  /\ Sequential'
           /\ \A u \in Threads : Quiet(u)
           /\ \A u \in Threads : u # t => Quiet(u)' /\ thread'[u] = thread[u]
<1>1. \A u \in Threads : Quiet(u)
  BY DEF OneByOne, MayStart
<1>2. \A u \in Threads : u # t => thread'[u] = thread[u]
  BY MovedKeeps
<1> QED BY <1>1, <1>2 DEF Sequential, Quiet

\* Nothing is under way for a thread that does not wait.
LEMMA NothingOut ==
    ASSUME Awaited, NEW t \in Threads, thread[t].pc # "wait"
    PROVE  \A m \in msgs \cup copying : m.by # t
BY DEF Awaited, Waiting

\* A thread that asks waits for what it sent, and for nothing else.
LEMMA AskedIsAwaited ==
    ASSUME TInv, Awaited, NEW t \in Threads, thread[t].pc # "wait",
           Moved(t), Asks(t), copying' = copying
    PROVE  Awaited'
<1>1. \A m \in msgs \cup copying : m.by # t /\ m.by \in Threads
  BY NothingOut DEF TInv, ListTypes, NodeTypes, Messages
<1>2. \A u \in Threads : u # t => thread'[u] = thread[u]
  BY MovedKeeps DEF TInv
<1>3. \A m \in msgs \cup copying : Waiting(m)'
  BY <1>1, <1>2 DEF Awaited, Waiting
<1>4. CASE msgs' = msgs
  BY <1>3, <1>4 DEF Awaited
<1>5. CASE thread'[t].pc = "wait" /\ msgs' \subseteq msgs \cup {thread'[t].call}
  <2>0. Fits(t, thread'[t])
    BY MovedKeeps DEF TInv, Placed
  <2>1. thread'[t].call.by = t
    BY <1>5, <2>0 DEF Fits
  <2>2. \A m : m = thread'[t].call => Waiting(m)'
    BY <1>5, <2>1 DEF Waiting
  <2>3. thread'[t].call \notin copying
    BY <1>1, <2>1
  <2> QED BY <1>3, <1>5, <2>2, <2>3 DEF Awaited
<1> QED BY <1>4, <1>5 DEF Asks

\* An answer leaves nothing out that is not waited for.
LEMMA AnsweredIsAwaited ==
    ASSUME TInv, Awaited, NEW m \in msgs \cup copying, NEW r, Answer(m, r),
           msgs' \subseteq msgs \ {m}, copying' \subseteq copying \ {m}
    PROVE  Awaited'
<1>1. m \in Messages /\ Waiting(m) /\ m.by \in Threads
  BY DEF TInv, ListTypes, NodeTypes, Messages, Awaited
<1>2. \A u \in Threads : u # m.by => thread'[u] = thread[u]
  BY <1>1, Answers DEF TInv
<1>3. \A k \in (msgs \cup copying) \ {m} : k.by # m.by /\ k.by \in Threads
  BY <1>1 DEF Awaited, Waiting, TInv, ListTypes, NodeTypes, Messages
<1>4. \A k \in (msgs \cup copying) \ {m} : Waiting(k)'
  BY <1>2, <1>3 DEF Awaited, Waiting
<1> QED BY <1>4 DEF Awaited

\* When a thread that was not recording moves on to something else than recording,
\* only the lists decide where a directory is known.
LEMMA SameRecording ==
    ASSUME TInv, NEW t \in Threads, Moved(t),
           thread[t].pc # "add", thread'[t].pc # "add"
    PROVE  \A h : Recording(h)' = Recording(h)
<1>1. \A u \in Threads : u # t => thread'[u] = thread[u]
  BY MovedKeeps DEF TInv
<1>2. {"replicate", "restore"} \subseteq Threads
  BY DEF Threads
<1> QED BY <1>1, <1>2 DEF Recording


\* While a retirement or any other request is busy elsewhere, nobody is recording.
LEMMA NobodyRecords ==
    ASSUME Sequential, NEW t \in Threads, ~Quiet(t), thread[t].pc # "add"
    PROVE  \A h : ~Recording(h)
<1>1. \A u \in {"replicate", "restore"} : u \in Threads /\ (u = t \/ Quiet(u))
  BY DEF Sequential, Threads
<1>2. \A u \in {"replicate", "restore"} : thread[u].pc # "add"
  BY <1>1 DEF Quiet
<1> QED BY <1>2 DEF Recording

\* A step of one thread that leaves the lists and the disks alone.
LEMMA PlainStep ==
    ASSUME OneByOne, TInv, QInv, NEW t \in Threads, Moved(t), Asks(t),
           MayStart \/ ~Quiet(t),
           thread[t].pc \notin {"wait", "add"}, thread'[t].pc # "add",
           lifecycle = "RETIRED" => lifecycle' = "RETIRED",
           UNCHANGED <<locations, disk, copying, beats>>
    PROVE  /\ Sequential' /\ Awaited' /\ Located'
           /\ \A u \in Threads : u # t => Quiet(u)'
           /\ t # "retire" => Retiring'
           /\ t # "restore" => RestoringLive'
<1>1. Sequential' /\ \A u \in Threads : u # t => Quiet(u)'
  BY OthersQuiet, StartsAlone DEF TInv, QInv
<1>2. Awaited'
  BY AskedIsAwaited DEF QInv
<1>3. Located'
  BY SameRecording DEF QInv, Located
<1>4. (t # "retire" => Quiet("retire")') /\ (t # "restore" => Quiet("restore")')
  BY <1>1 DEF Threads
<1> QED BY <1>1, <1>2, <1>3, <1>4 DEF Retiring, RestoringLive

LEMMA ReplicateKeeps ==
    ASSUME OneByOne, TInv, QInv, ReplicateStart \/ ReplicateNext \/ ReplicateReread
    PROVE  QInv'
<1>1. /\ "replicate" \in Threads /\ (MayStart \/ ~Quiet("replicate"))
      /\ thread["replicate"].pc \notin {"wait", "add"}
  BY DEF ReplicateStart, ReplicateNext, ReplicateReread, Quiet, Threads
<1>2. UNCHANGED <<lifecycle, locations, disk, copying, beats>>
  BY DEF ReplicateStart, ReplicateNext, ReplicateReread, rowVars, nodeVars
<1>3. /\ lifecycle = "RETIRED" => lifecycle' = "RETIRED"
      /\ UNCHANGED <<locations, disk, copying, beats>>
  BY <1>2
<1> QED BY <1>1, <1>3, ReplicateMoves, PlainStep DEF QInv

LEMMA VerifyKeeps ==
    ASSUME OneByOne, TInv, QInv, VerifyStart \/ VerifyRecord
    PROVE  QInv'
<1>1. /\ "verify" \in Threads /\ (MayStart \/ ~Quiet("verify"))
      /\ thread["verify"].pc \notin {"wait", "add"}
  BY DEF VerifyStart, VerifyRecord, Quiet, Threads
<1>2. UNCHANGED <<lifecycle, locations, disk, copying, beats>>
  BY DEF VerifyStart, VerifyRecord, SetIntegrity, rowVars, nodeVars
<1>3. /\ lifecycle = "RETIRED" => lifecycle' = "RETIRED"
      /\ UNCHANGED <<locations, disk, copying, beats>>
  BY <1>2
<1> QED BY <1>1, <1>3, VerifyMoves, PlainStep DEF QInv

LEMMA RestoreKeeps ==
    ASSUME OneByOne, TInv, QInv, RestoreStep \/ \E n \in active : RestoreStart(n)
    PROVE  QInv'
<1>1. "restore" \in Threads
  BY DEF Threads
<1>2. CASE RestoreStep
  <2>1. thread["restore"].pc \notin Aimless \cup {"wait", "add"}
    <3>1. thread["restore"].pc # "add"
      BY <1>2 DEF RestoreStep, RestoreReserve, RestorePending, RestoreProvide, RestoreApply,
                  RestoreCommit, RestoreAbort, RestorePutBack, RestoreRelease
    <3> QED BY <1>2, <3>1, RestoreAims
  <2>2. ~Quiet("restore") /\ lifecycle # "RETIRED" /\ lifecycle' # "RETIRED"
    BY <1>2, <2>1, RestoreRow DEF Quiet, Aimless, QInv, RestoringLive
  <2>3. UNCHANGED <<locations, disk, copying, beats>>
    BY <1>2, RestoreRow DEF nodeVars
  <2> QED BY <1>1, <1>2, <2>1, <2>2, <2>3, RestoreMoves, PlainStep DEF QInv, RestoringLive
<1>3. CASE \E n \in active : RestoreStart(n)
  <2>1. PICK n \in active : RestoreStart(n)
    BY <1>3
  <2>2. /\ MayStart /\ thread["restore"].pc = "idle" /\ msgs' = msgs
        /\ lifecycle # "RETIRED" /\ lifecycle' = lifecycle
        /\ UNCHANGED <<locations, disk, copying, beats>>
    BY <2>1 DEF RestoreStart, IsRestorable, rowVars, nodeVars
  <2>3. Moved("restore") /\ Asks("restore") /\ thread'["restore"].pc # "add"
    BY <2>1, <2>2, RestoreStartMoves DEF Asks
  <2> QED BY <1>1, <2>2, <2>3, PlainStep DEF QInv, RestoringLive
<1> QED BY <1>2, <1>3

\* A retirement takes the directories of the list one by one.
LEMMA RetireKeeps ==
    ASSUME OneByOne, TInv, QInv, RetireStart \/ RetireCheck \/ RetireDelete
    PROVE  QInv'
<1> DEFINE th == thread["retire"]
<1>1. /\ "retire" \in Threads /\ (MayStart \/ ~Quiet("retire"))
      /\ th.pc \notin {"wait", "add"}
  BY DEF RetireStart, RetireCheck, RetireDelete, Quiet, Threads
<1>2. UNCHANGED <<lifecycle, protection, locations, disk, copying, beats>>
  BY DEF RetireStart, RetireCheck, RetireDelete, rowVars, nodeVars
<1>3. Moved("retire") /\ Asks("retire") /\ thread'["retire"].pc # "add"
  <2>1. RetireStart \/ RetireCheck => msgs' = msgs
    BY DEF RetireStart, RetireCheck
  <2> QED BY <2>1, RetireMoves DEF Asks
<1>4. Retiring'
  <2>1. CASE RetireStart
    <3>1. thread'["retire"].snap = locations /\ protection = "none"
      BY <2>1, RetireMoves DEF RetireStart
    <3> QED BY <1>2, <3>1 DEF Retiring
  <2>2. CASE RetireCheck
    <3>1. ~Quiet("retire") /\ th.pc # "wait"
      BY <2>2 DEF RetireCheck, Quiet
    <3>2. thread'["retire"].pc \in {"idle", "done"} \/ thread'["retire"].snap = th.snap
      BY <2>2, RetireMoves
    <3> QED BY <1>2, <3>1, <3>2 DEF Retiring, QInv, Quiet
  <2>3. CASE RetireDelete
    <3>1. ~Quiet("retire") /\ th.pc # "wait" /\ th.snap # <<>>
      BY <2>3 DEF RetireDelete, Quiet
    <3>2. th.snap \in Seq(NodeIds)
      BY States DEF TInv, ThreadTypes, Threads
    <3>3. HostsOf(th.snap) \subseteq HostsOf(Tail(th.snap)) \cup {Head(th.snap)[1]}
      BY <3>1, <3>2, HeadTail
    <3>4. /\ thread'["retire"].pc = "wait"
          /\ thread'["retire"].snap = Tail(th.snap)
          /\ thread'["retire"].call.node = Head(th.snap)
      BY <2>3, RetireMoves
    <3> QED BY <1>2, <3>1, <3>3, <3>4 DEF Retiring, QInv
  <2> QED BY <2>1, <2>2, <2>3
<1>5. /\ lifecycle = "RETIRED" => lifecycle' = "RETIRED"
      /\ UNCHANGED <<locations, disk, copying, beats>>
  BY <1>2
<1> QED BY <1>1, <1>3, <1>4, <1>5, PlainStep DEF QInv

\* What a retirement clears is deleted.
LEMMA ClearedDirectories ==
    ASSUME TInv, QInv, RetireMark, lifecycle # "RETIRED"
    PROVE  \A h \in Hosts : disk[h] = "absent"
<1>1. ~Quiet("retire") /\ thread["retire"].pc = "delete" /\ "retire" \in Threads
  BY DEF RetireMark, Quiet, Threads
<1>2. HostsOf(thread["retire"].snap) = {}
  BY DEF RetireMark, HostsOf
<1>3. \A h \in HostsOf(locations) : disk[h] = "absent"
  BY <1>1, <1>2 DEF QInv, Retiring
<1> QED BY <1>1, <1>3, NobodyRecords DEF QInv, Located

LEMMA RetireMarkKeeps ==
    ASSUME OneByOne, TInv, QInv, RetireMark
    PROVE  QInv'
<1>1. /\ "retire" \in Threads /\ ~Quiet("retire")
      /\ thread["retire"].pc \notin {"wait", "add"}
      /\ msgs' = msgs /\ UNCHANGED <<disk, copying, beats>>
  BY DEF RetireMark, Quiet, Threads, nodeVars
<1>2. Moved("retire") /\ Asks("retire") /\ thread'["retire"].pc \in {"idle", "done"}
  BY <1>1, RetireMoves DEF Asks
<1>3. Sequential' /\ (\A u \in Threads : u # "retire" => Quiet(u) /\ Quiet(u)')
  BY <1>1, <1>2, OthersQuiet DEF TInv, QInv
<1>4. Awaited'
  BY <1>1, <1>2, AskedIsAwaited DEF QInv
<1>5. Retiring' /\ RestoringLive'
  BY <1>2, <1>3 DEF Retiring, RestoringLive, Quiet, Threads
<1>6. Located'
  <2>1. CASE lifecycle' = "RETIRED" /\ locations' = <<>> /\ lifecycle # "RETIRED"
    BY <1>1, <2>1, ClearedDirectories DEF Located
  <2>2. CASE UNCHANGED <<lifecycle, locations>>
    BY <1>1, <1>2, <2>2, SameRecording DEF QInv, Located
  <2>3. CanTransition(lifecycle, "RETIRED") => lifecycle # "RETIRED"
    BY DEF CanTransition, Successors
  <2> QED BY <2>1, <2>2, <2>3 DEF RetireMark
<1> QED BY <1>3, <1>4, <1>5, <1>6 DEF QInv

LEMMA FetchKeeps ==
    ASSUME OneByOne, TInv, QInv, NEW t \in Threads, SendFetch(t)
    PROVE  QInv'
<1>1. thread[t].pc \notin {"wait", "add"} /\ ~Quiet(t)
  BY DEF SendFetch, Quiet
<1>2. lifecycle' = lifecycle /\ UNCHANGED <<locations, disk, copying, beats>>
  BY DEF SendFetch, rowVars, nodeVars
<1>3. /\ t \in {"replicate", "restore"} /\ Moved(t) /\ Asks(t) /\ thread'[t].pc # "add"
  BY FetchMoves
<1> QED BY <1>1, <1>2, <1>3, PlainStep DEF QInv, RestoringLive

LEMMA CopyKeeps ==
    ASSUME OneByOne, TInv, QInv, NEW t \in Threads, RecordCopy(t)
    PROVE  QInv'
<1>1. /\ t \in {"replicate", "restore"} /\ thread[t].pc = "add" /\ Moved(t)
      /\ thread'[t].pc \in {"reread", "apply"}
      /\ HostsOf(locations') = HostsOf(locations) \cup {thread[t].target[1]}
  BY CopyMoves
<1>2. ~Quiet(t) /\ msgs' = msgs /\ UNCHANGED <<lifecycle, protection, disk, copying, beats>>
  BY <1>1 DEF RecordCopy, Quiet, nodeVars
<1>3. Sequential' /\ (\A u \in Threads : u # t => Quiet(u) /\ Quiet(u)')
  BY <1>1, <1>2, OthersQuiet DEF TInv, QInv
<1>4. Awaited'
  BY <1>1, <1>2, AskedIsAwaited DEF QInv, Asks
<1>5. \A h : Recording(h) => h = thread[t].target[1]
  <2>1. \A u \in {"replicate", "restore"} : thread[u].pc = "add" => u = t
    BY <1>3 DEF Quiet, Threads
  <2> QED BY <2>1 DEF Recording
<1>6. Located'
  BY <1>1, <1>2, <1>5 DEF QInv, Located
<1>7. Retiring' /\ RestoringLive'
  BY <1>1, <1>2, <1>3 DEF QInv, Retiring, RestoringLive, Threads
<1> QED BY <1>3, <1>4, <1>6, <1>7 DEF QInv

\* What a thread does after a call that did not make a copy.
LEMMA ContinueKeeps ==
    ASSUME TInv, QInv, NEW t \in Threads, thread[t].pc = "wait", NEW r, Continue(t, r),
           ~(thread[t].call.op = "fetch" /\ r = "ok")
    PROVE  /\ Sequential'
           /\ \A u \in Threads : u # t => Quiet(u)'
           /\ \A h : Recording(h)' = Recording(h)
           /\ t = "retire" => \/ Quiet(t)'
                              \/ r = "ok" /\ thread'[t].snap = thread[t].snap
<1>1. /\ Moved(t)
      /\ \/ thread'[t].pc \in {"idle", "done"}
         \/ /\ thread'[t].pc = After(t, thread[t].call.op, r)
            /\ thread'[t].snap = thread[t].snap
  BY Continues DEF TInv
<1>2. Sequential' /\ \A u \in Threads : u # t => Quiet(u)'
  BY <1>1, OthersQuiet DEF TInv, QInv, Quiet
<1>3. thread[t].call.op \in OpsOf(t)
  BY DEF TInv, Placed, Fits
<1>4. thread'[t].pc # "add"
  BY <1>1, <1>3, AfterLabel
<1>5. \A h : Recording(h)' = Recording(h)
  BY <1>1, <1>4, SameRecording
<1>6. ASSUME t = "retire", thread'[t].pc = After(t, thread[t].call.op, r)
      PROVE  r = "ok"
  <2>1. thread'[t].pc \in LabelsOf(t)
    BY <1>1, MovedKeeps DEF TInv, Placed, Fits
  <2>2. After(t, thread[t].call.op, r) = "delete"
    BY <1>3, <1>6, <2>1, AfterLabel, ThreadLabels
  <2> QED BY <1>3, <2>2, AfterLabel
<1> QED BY <1>1, <1>2, <1>5, <1>6 DEF Quiet

LEMMA GiveUpKeeps ==
    ASSUME OneByOne, TInv, QInv, NEW t \in Threads, GiveUp(t)
    PROVE  QInv'
<1>1. /\ thread[t].pc = "wait" /\ Continue(t, "error") /\ thread[t].call \notin msgs \cup copying
      /\ UNCHANGED <<lifecycle, protection, locations, disk, copying, beats, msgs>>
  BY DEF GiveUp, OneByOne, rowVars, nodeVars
<1>2. /\ Sequential'
      /\ \A u \in Threads : u # t => Quiet(u)'
      /\ \A h : Recording(h)' = Recording(h)
      /\ t = "retire" => Quiet(t)'
  BY <1>1, ContinueKeeps
<1>3. \A m \in msgs \cup copying : m.by # t /\ m.by \in Threads
  BY <1>1 DEF QInv, Awaited, Waiting, TInv, ListTypes, NodeTypes, Messages
<1>4. \A u \in Threads : u # t => thread'[u] = thread[u]
  BY <1>1, Continues, MovedKeeps DEF TInv
<1>5. Awaited'
  BY <1>1, <1>3, <1>4 DEF QInv, Awaited, Waiting
<1>6. Located'
  BY <1>1, <1>2 DEF QInv, Located
<1>7. Retiring' /\ RestoringLive'
  BY <1>1, <1>2 DEF QInv, RestoringLive, Retiring, Quiet, Threads
<1> QED BY <1>2, <1>5, <1>6, <1>7 DEF QInv

LEMMA HandledKeeps ==
    ASSUME OneByOne, TInv, QInv, NEW m \in msgs, Handled(m)
    PROVE  QInv'
<1>1. /\ m \in Messages /\ m.by \in Threads /\ msgs' = msgs \ {m}
      /\ UNCHANGED <<lifecycle, protection, locations, beats>>
  BY HandledMoves DEF Messages, rowVars
<1>2. /\ thread[m.by].pc = "wait" /\ thread[m.by].call = m /\ m \notin copying
      /\ m.op \in OpsOf(m.by)
  BY <1>1 DEF QInv, Awaited, Waiting, TInv, Placed, Fits
<1>3. CASE thread' = thread /\ m.op = "fetch" /\ copying' = copying \cup {m} /\ disk' = disk
  <2>1. Awaited'
    BY <1>1, <1>2, <1>3 DEF QInv, Awaited, Waiting
  <2> QED BY <1>1, <1>3, <2>1
        DEF QInv, Sequential, Quiet, Located, Recording, Retiring, RestoringLive
<1>4. CASE \E r : Answer(m, r) /\ copying' \subseteq copying /\ (m.op = "fetch" => r # "ok")
                    /\ (~Delete(m) => disk' = disk)
  <2>1. PICK r : Answer(m, r) /\ copying' \subseteq copying /\ (m.op = "fetch" => r # "ok")
    BY <1>4
  <2>2. Continue(m.by, r)
    BY <1>2, <2>1 DEF Answer, Waiting
  <2>3. /\ Sequential'
        /\ \A u \in Threads : u # m.by => Quiet(u)'
        /\ \A h : Recording(h)' = Recording(h)
    BY <1>1, <1>2, <2>1, <2>2, ContinueKeeps
  <2>4. Awaited'
    BY <1>1, <1>2, <2>1, AnsweredIsAwaited DEF QInv
  <2>5. \A h \in Hosts : disk[h] = "absent" => disk'[h] = "absent"
    <3>1. CASE Delete(m)
      BY <1>1, <3>1, Deletes DEF TInv, NodeTypes
    <3>2. CASE ~Delete(m)
      BY <1>4, <3>2
    <3> QED BY <3>1, <3>2
  <2>6. Located'
    BY <1>1, <2>3, <2>5 DEF QInv, Located
  <2>7. Retiring'
    <3>1. CASE m.by # "retire"
      BY <2>3, <3>1 DEF Retiring, Threads
    <3>2. CASE m.by = "retire"
      <4>1. m.op = "delete" /\ ~Quiet("retire")
        BY <1>2, <3>2, ThreadLabels DEF Quiet
      <4>2. Delete(m)
        BY <4>1 DEF Handled, AllowFetch, FetchBegin, Probe, CheckCopy, Unstage, Receive
      <4>3. PICK left \in DiskStates :
               /\ disk' = [disk EXCEPT ![m.node[1]] = left]
               /\ Answer(m, IF left = "absent" THEN "ok" ELSE "refused")
        BY <1>1, <4>2, Deletes
      <4>4. Continue("retire", IF left = "absent" THEN "ok" ELSE "refused")
        BY <1>2, <3>2, <4>3 DEF Answer, Waiting
      <4>5. \/ Quiet("retire")'
            \/ left = "absent" /\ thread'["retire"].snap = thread["retire"].snap
        BY <1>1, <1>2, <3>2, <4>1, <4>4, ContinueKeeps
      <4>6. left = "absent" =>
               \A h \in HostsOf(locations) :
                  \/ disk[h] = "absent" /\ disk'[h] = "absent"
                  \/ disk[h] # "absent" /\ h # m.node[1]
                  \/ disk'[h] = "absent"
        <5>1. HostsOf(locations) \subseteq Hosts /\ m.node[1] \in Hosts
          BY <1>1 DEF TInv, ListTypes, HostsOf, NodeIds, Messages
        <5> QED BY <4>3, <5>1, <2>5 DEF TInv, NodeTypes
      <4> QED BY <1>1, <1>2, <3>2, <4>1, <4>5, <4>6 DEF QInv, Retiring
    <3> QED BY <3>1, <3>2
  <2>8. RestoringLive'
    BY <1>1, <1>2, <2>3 DEF QInv, RestoringLive, Quiet, Threads
  <2> QED BY <2>3, <2>4, <2>6, <2>7, <2>8 DEF QInv
<1> QED BY <1>3, <1>4, HandledMoves

LEMMA FetchEndKeeps ==
    ASSUME OneByOne, TInv, QInv, NEW m \in copying, FetchEnd(m)
    PROVE  QInv'
<1>1. /\ m \in Messages /\ m.by \in Threads /\ copying' = copying \ {m} /\ msgs' = msgs
      /\ UNCHANGED <<lifecycle, protection, locations, beats>>
  BY FetchEnds DEF Messages, rowVars
<1>2. /\ thread[m.by].pc = "wait" /\ thread[m.by].call = m /\ m \notin msgs /\ m.op = "fetch"
      /\ m.op \in OpsOf(m.by) /\ thread[m.by].target = m.node
  BY <1>1 DEF QInv, Awaited, Waiting, TInv, Placed, Fits
<1>3. m.by \in {"replicate", "restore"} /\ ~Quiet(m.by)
  BY <1>1, <1>2, ThreadLabels DEF Threads, Quiet
<1>4. \A r : Answer(m, r) => Continue(m.by, r) /\ Awaited'
  BY <1>1, <1>2, AnsweredIsAwaited DEF QInv, Answer, Waiting
<1>5. CASE disk' = disk /\ \E r \in {"refused", "error"} : Answer(m, r)
  <2>1. /\ Sequential' /\ Awaited'
        /\ \A u \in Threads : u # m.by => Quiet(u)'
        /\ \A h : Recording(h)' = Recording(h)
    BY <1>1, <1>2, <1>4, <1>5, ContinueKeeps
  <2> QED BY <1>1, <1>3, <1>5, <2>1 DEF QInv, Located, Retiring, RestoringLive, Threads
<1>6. CASE /\ disk' = [disk EXCEPT ![m.node[1]] = "good"]
           /\ Answer(m, "ok")
  <2>1. Moved(m.by) /\ thread'[m.by].pc = "add" /\ thread'[m.by].target = m.node
    <3>1. After(m.by, "fetch", "ok") = "add"
      BY <1>1, <1>2, AfterLabel
    <3>2. /\ Moved(m.by)
          /\ thread' = [thread EXCEPT ![m.by] = [@ EXCEPT !.pc = "add"]]
      BY <1>1, <1>2, <1>4, <1>6, <3>1, Continues DEF Continue, TInv
    <3>3. thread[m.by] \in ThreadStates
      BY <1>1 DEF TInv, ThreadTypes
    <3> QED BY <1>1, <1>2, <3>2, <3>3 DEF TInv, ThreadTypes, ThreadStates
  <2>2. Sequential' /\ \A u \in Threads : u # m.by => Quiet(u)'
    BY <1>1, <1>3, <2>1, OthersQuiet DEF QInv, TInv
  <2>3. \A h : ~Recording(h)
    BY <1>1, <1>2, <1>3, NobodyRecords DEF QInv
  <2>4. Recording(m.node[1])'
    BY <1>3, <2>1 DEF Recording
  <2>5. \A h \in Hosts : h # m.node[1] => disk'[h] = disk[h]
    BY <1>6 DEF TInv, NodeTypes
  <2>6. Located'
    BY <1>1, <2>3, <2>4, <2>5 DEF QInv, Located
  <2> QED BY <1>1, <1>3, <1>4, <1>6, <2>2, <2>6 DEF QInv, Retiring, RestoringLive, Threads
<1> QED BY <1>5, <1>6, FetchEnds

\* Heartbeats and restarts list only directories that are listed while a retirement is
\* under way.
LEMMA BackgroundKeeps ==
    ASSUME OneByOne, TInv, QInv, Background
    PROVE  QInv'
<1>1. /\ UNCHANGED <<lifecycle, protection, thread>>
      /\ msgs' \subseteq msgs /\ copying' \subseteq copying
  BY DEF Background, BeatSend, NodeRestart, Damage, BeatApply, MarkStale, rowVars, nodeVars
<1>2. Sequential' /\ Awaited' /\ RestoringLive' /\ (\A h : Recording(h)' = Recording(h))
  BY <1>1 DEF QInv, Sequential, Quiet, Awaited, Waiting, RestoringLive, Recording
<1>3. ~Quiet("retire") => \A h : ~Recording(h)
  BY NobodyRecords, ThreadLabels DEF QInv, TInv, Placed, Fits, Threads
<1>4. ASSUME NEW h \in Hosts,
             HostsOf(locations') \in {HostsOf(locations), HostsOf(locations) \cup {h}},
             \A k \in Hosts : disk'[k] = "absent" <=> disk[k] = "absent",
             beats' \subseteq beats \cup ({h} \X Nat),
             beats' \subseteq beats \/ disk[h] # "absent",
             ~Quiet("retire") /\ lifecycle # "RETIRED" => HostsOf(locations') = HostsOf(locations)
      PROVE  Located' /\ Retiring'
  <2>1. \A n \in beats : n[1] \in Hosts
    BY DEF TInv, NodeTypes, NodeIds
  <2>2. HostsOf(locations) \subseteq Hosts
    BY DEF TInv, ListTypes, HostsOf, NodeIds
  <2>3. Located'
    BY <1>1, <1>2, <1>4, <2>1 DEF QInv, Located
  <2>4. Retiring'
    BY <1>1, <1>4, <2>2 DEF QInv, Retiring, Quiet
  <2> QED BY <2>3, <2>4
<1>5. CASE \E h \in Hosts : BeatSend(h)
  <2>1. PICK h \in Hosts : BeatSend(h)
    BY <1>5
  <2>2. /\ disk[h] # "absent" /\ boot[h] \in Nat
        /\ beats' = beats \cup {<<h, boot[h]>>} /\ UNCHANGED <<locations, disk>>
    BY <2>1 DEF BeatSend, HasCommitted, rowVars, TInv, NodeTypes
  <2> QED BY <1>2, <1>4, <2>2 DEF QInv
<1>6. CASE \E h \in Hosts : NodeRestart(h)
  <2>1. PICK h \in Hosts : NodeRestart(h)
    BY <1>6
  <2>2. /\ disk' = disk /\ beats' = beats
        /\ \/ disk[h] # "absent" /\ HostsOf(locations') = HostsOf(locations) \cup {h}
           \/ locations' = locations
    BY <2>1, Restarts DEF HasCommitted
  <2>3. ~Quiet("retire") /\ disk[h] # "absent" => h \in HostsOf(locations)
    BY <1>3, <2>1 DEF QInv, Located
  <2> QED BY <1>2, <1>4, <2>2, <2>3 DEF QInv
<1>7. CASE \E h \in Hosts : Damage(h)
  <2>1. PICK h \in Hosts : Damage(h)
    BY <1>7
  <2>2. /\ locations' = locations /\ beats' = beats
        /\ \A k \in Hosts : disk'[k] = "absent" <=> disk[k] = "absent"
    BY <2>1 DEF Damage, rowVars, TInv, NodeTypes
  <2> QED BY <1>2, <1>4, <2>2 DEF QInv
<1>8. CASE \E n \in beats : BeatApply(n)
  <2>1. PICK n \in beats : BeatApply(n)
    BY <1>8
  <2>2. /\ n[1] \in Hosts /\ disk' = disk /\ beats' \subseteq beats
        /\ HostsOf(locations') \in {HostsOf(locations), HostsOf(locations) \cup {n[1]}}
    BY <2>1, Beats DEF NodeIds
  <2>3. ~Quiet("retire") /\ lifecycle # "RETIRED" => n[1] \in HostsOf(locations)
    BY <1>3 DEF QInv, Located
  <2> QED BY <1>2, <1>4, <2>2, <2>3 DEF QInv
<1>9. CASE \E n \in active : MarkStale(n)
  <2>1. UNCHANGED <<locations, disk, beats>>
    BY <1>9 DEF MarkStale, rowVars, nodeVars
  <2> QED BY <1>1, <1>2, <2>1 DEF QInv, Located, Retiring, Quiet
<1> QED BY <1>5, <1>6, <1>7, <1>8, <1>9 DEF Background

LEMMA ProtectKeeps ==
    ASSUME OneByOne, TInv, QInv, NEW p \in Protections, Protect(p)
    PROVE  QInv'
<1>1. (\A t \in Threads : Quiet(t)) /\ "retire" \in Threads
  BY DEF Protect, MayStart, OneByOne, Threads
<1>2. UNCHANGED <<lifecycle, locations, thread, disk, copying, beats, msgs>>
  BY DEF Protect, SetProtection, nodeVars
<1> QED BY <1>1, <1>2 DEF QInv, Sequential, Quiet, Awaited, Waiting, Located, Recording,
                          Retiring, RestoringLive

LEMMA InitQuiet == Init => QInv
<1> SUFFICES ASSUME Init PROVE QInv
  OBVIOUS
<1>1. \A t \in Threads : Quiet(t)
  <2>1. Fresh.pc = "idle" /\ [Fresh EXCEPT !.pc = "ready"].pc = "ready"
    BY DEF Fresh
  <2> QED BY <2>1 DEF Init, Quiet
<1>2. HostsOf(locations) = {Home}
  <2>1. DOMAIN locations = {1} /\ locations[1] = <<Home, 1>>
    BY DEF Init
  <2> QED BY <2>1 DEF HostsOf
<1>3. Located
  BY <1>2 DEF Init, Located
<1>4. "retire" \in Threads /\ "restore" \in Threads
  BY DEF Threads
<1>5. Awaited
  BY DEF Init, Awaited
<1> QED BY <1>1, <1>3, <1>4, <1>5 DEF QInv, Sequential, Retiring, RestoringLive

LEMMA NextQuiet ==
    ASSUME OneByOne
    PROVE  TInv /\ QInv /\ [Next]_vars => QInv'
<1>1. CASE TInv /\ QInv /\ Next
  BY <1>1, Steps, ReplicateKeeps, VerifyKeeps, RetireKeeps, RetireMarkKeeps, RestoreKeeps,
     ProtectKeeps, FetchKeeps, CopyKeeps, GiveUpKeeps, HandledKeeps, FetchEndKeeps,
     BackgroundKeeps
<1>2. CASE QInv /\ UNCHANGED vars
  BY <1>2 DEF QInv, Sequential, Quiet, Awaited, Waiting, Located, Recording, Retiring,
              RestoringLive, vars, rowVars, nodeVars
<1> QED BY <1>1, <1>2

LEMMA QuietInvariant ==
    ASSUME OneByOne
    PROVE  Spec => [](TInv /\ QInv)
<1>1. Init => TInv /\ QInv
  BY InitTypes, InitQuiet
<1>2. TInv /\ QInv /\ [Next]_vars => (TInv /\ QInv)'
  BY NextTypes, NextQuiet
<1> QED BY <1>1, <1>2, PTL DEF Spec

\* Who changes a disk: deletions, replications that end, and damage.
LEMMA DiskChanges ==
    ASSUME TInv, Next
    PROVE  \/ disk' = disk
           \/ \E m \in msgs : Handled(m) /\ Delete(m)
           \/ \E m \in copying : FetchEnd(m)
           \/ \E h \in Hosts : Damage(h)
<1>1. CASE \E m \in msgs : Handled(m)
  BY <1>1, HandledMoves
<1>2. CASE Background
  BY <1>2 DEF Background, BeatSend, NodeRestart, BeatApply, MarkStale, nodeVars
<1>3. CASE ReplicateStart \/ ReplicateNext \/ ReplicateReread \/ VerifyStart \/ VerifyRecord
  BY <1>3 DEF ReplicateStart, ReplicateNext, ReplicateReread, VerifyStart, VerifyRecord, nodeVars
<1>4. CASE RetireStart \/ RetireCheck \/ RetireDelete \/ RetireMark
  BY <1>4 DEF RetireStart, RetireCheck, RetireDelete, RetireMark, nodeVars
<1>5. CASE RestoreStep
  BY <1>5, RestoreRow DEF nodeVars
<1>6. CASE \/ \E p \in Protections : Protect(p)
           \/ \E n \in active : RestoreStart(n)
           \/ \E t \in Threads : SendFetch(t) \/ RecordCopy(t) \/ GiveUp(t)
  BY <1>6 DEF Protect, RestoreStart, SendFetch, RecordCopy, GiveUp, nodeVars
<1> QED BY <1>1, <1>2, <1>3, <1>4, <1>5, <1>6, Steps

\* A copy that appears in a directory is good, although its source may be damaged while
\* it is read: do_replicate compares every component with its hash before it promotes.
THEOREM DamageIsContained == Spec => DamageStays
<1>1. ASSUME TInv, Next, NEW h \in Hosts, disk[h] = "absent"
      PROVE  disk'[h] \in {"absent", "good"}
  <2>1. CASE \E m \in msgs : Handled(m) /\ Delete(m)
    BY <1>1, <2>1, Deletes DEF TInv, NodeTypes, ListTypes
  <2>2. CASE \E m \in copying : FetchEnd(m)
    BY <1>1, <2>2, FetchEnds DEF TInv, NodeTypes
  <2>3. CASE \E k \in Hosts : Damage(k)
    BY <1>1, <2>3 DEF Damage, TInv, NodeTypes
  <2> QED BY <1>1, <2>1, <2>2, <2>3, DiskChanges
<1>2. TInv /\ [Next]_vars =>
         [\A h \in Hosts : disk[h] = "absent" => disk'[h] \in {"absent", "good"}]_vars
  BY <1>1
<1> QED BY <1>2, TypesInvariant, PTL DEF Spec, DamageStays

\* A retirement that reaches checkpoint_retire has deleted every directory whose location
\* it clears, also those that heartbeats and restarted nodes listed meanwhile.
THEOREM ClearedAreDeleted ==
    ASSUME OneByOne
    PROVE  Spec => ClearedIsDeleted
<1>1. ASSUME TInv, QInv, Next, lifecycle' = "RETIRED", lifecycle # "RETIRED"
      PROVE  \A i \in DOMAIN locations : disk[locations[i][1]] = "absent"
  <2>1. RetireMark
    BY <1>1, Steps, RestoreRow, HandledMoves, FetchEnds
       DEF ReplicateStart, ReplicateNext, ReplicateReread, VerifyStart, VerifyRecord, SetIntegrity,
           RetireStart, RetireCheck, RetireDelete, Protect, SetProtection, RestoreStart,
           SendFetch, RecordCopy, GiveUp, Background, BeatSend, NodeRestart, Damage, BeatApply,
           MarkStale, rowVars
  <2>2. \A i \in DOMAIN locations : locations[i][1] \in Hosts
    BY <1>1 DEF TInv, ListTypes, NodeIds
  <2> QED BY <1>1, <2>1, <2>2, ClearedDirectories
<1>2. TInv /\ QInv /\ [Next]_vars =>
         [lifecycle' = "RETIRED" /\ lifecycle # "RETIRED" =>
            \A i \in DOMAIN locations : disk[locations[i][1]] = "absent"]_vars
  BY <1>1
<1> QED BY <1>2, QuietInvariant, PTL DEF Spec, ClearedIsDeleted

\* Nothing deletes a copy of a protected checkpoint: retire_checkpoint looks at the
\* protection before it asks a node to delete, and nobody protects it in between.
THEOREM ProtectedStays ==
    ASSUME OneByOne
    PROVE  Spec => ProtectedIsKept
<1>1. ASSUME TInv, QInv, Next, protection # "none", NEW h \in Hosts, HasCommitted(h)
      PROVE  HasCommitted(h)'
  <2>1. CASE \E m \in msgs : Handled(m) /\ Delete(m)
    <3>1. PICK m \in msgs : Handled(m) /\ Delete(m)
      BY <2>1
    <3>2. m \in Messages /\ m.op = "delete" /\ m.by \in Threads /\ Waiting(m)
      BY <1>1, <3>1, HandledMoves, Deletes DEF Messages, QInv, Awaited
    <3>3. m.op \in OpsOf(m.by)
      BY <1>1, <3>2 DEF Waiting, TInv, Placed, Fits
    <3>4. m.by = "retire"
      BY <3>2, <3>3, ThreadLabels DEF Threads
    <3>5. ~Quiet("retire")
      BY <3>2, <3>4 DEF Waiting, Quiet
    <3> QED BY <1>1, <3>5 DEF QInv, Retiring
  <2>2. CASE \E m \in copying : FetchEnd(m)
    BY <1>1, <2>2, FetchEnds DEF TInv, NodeTypes, HasCommitted
  <2>3. CASE \E k \in Hosts : Damage(k)
    BY <1>1, <2>3 DEF Damage, TInv, NodeTypes, HasCommitted
  <2>4. CASE disk' = disk
    BY <1>1, <2>4 DEF HasCommitted
  <2> QED BY <1>1, <2>1, <2>2, <2>3, <2>4, DiskChanges
<1>2. TInv /\ QInv /\ [Next]_vars =>
         [protection # "none" => \A h \in Hosts : HasCommitted(h) => HasCommitted(h)']_vars
  BY <1>1
<1> QED BY <1>2, QuietInvariant, PTL DEF Spec, ProtectedIsKept
==============================================================================
