------------------------- MODULE RouterLife_proofs -------------------------
(***************************************************************************)
(* Proofs about RouterLife, for any number of routers and clients that     *)
(* start, end and are killed in any order: routers are not mixed up, and   *)
(* what one of them makes it has while it serves and takes away at its     *)
(* end.  The argument is that the shared memory segment is a lock: it is   *)
(* made first and removed last.                                            *)
(***************************************************************************)
EXTENDS RouterLife, TLAPS

\* Where a router is before it has made its memory, and from then on.
Before  == {"off", "rm shm", "rm in", "rm out", "create shm"}
Making  == {"init", "create in", "create out", "serve"}
Closing == {"give up", "quit in", "quit out", "quit shm"}
Holding == Making \cup Closing

\* The types of all the variables.
Typed ==
    /\ LifeTypeOK
    /\ rflag \in [Routers -> BOOLEAN] /\ lists \in [Routers -> BOOLEAN]

\* A router has no id before it has made an object.
NoIdBefore == \A p \in Routers : pc[p] \in Before => id[p] = NoIds

\* One router at a time has the memory.
OneHolds == \A p, q \in Routers : pc[p] \in Holding /\ pc[q] \in Holding => p = q

\* Routers that are not started over each other.
OneGoes ==
    "overlap" \notin may => \A p, q \in Routers : Going(p) /\ Going(q) => p = q

\* The memory of a router that has made it is the one at the key.
HasMemory(p) == id[p]["shm"] # 0 /\ obj["shm"] = id[p]["shm"]
MemoryHeld ==
    \A p \in Routers :
        /\ pc[p] \in Making => HasMemory(p)
        /\ pc[p] \in Holding /\ "overlap" \in may => HasMemory(p)

\* Routers started over each other are not told to remove anything.
Plain ==
    "overlap" \in may => \A p \in Routers : pc[p] \in {"off", "create shm"} \cup Holding

\* The queue of a router that has made it.
HasQueue == \A p \in Routers : pc[p] \in {"create out", "serve"} => id[p]["in"] # 0

\* A client at the queue of a router has the memory of that router.
Paired ==
    \A c \in Clients, p \in Routers :
        /\ cp[c] = "on" /\ pc[p] \in {"create out", "serve"} /\ cid[c]["in"] = id[p]["in"]
        => cid[c]["shm"] = id[p]["shm"]

\* What holds while routers are apart.
ApartInv ==
    /\ NoIdBefore /\ OneHolds /\ OneGoes /\ MemoryHeld /\ Plain /\ HasQueue /\ Paired
    /\ ~robbed

\* The object of a kind is there and the router has its id, or there is none.
Holds(p, k, ls) == IF pc[p] \in ls THEN Live(k, id[p][k]) ELSE obj[k] = 0
Complete ==
    \A p \in Routers : pc[p] \in Holding =>
        /\ pc[p] # "give up" /\ Live("shm", id[p]["shm"])
        /\ Holds(p, "in", {"create out", "serve", "quit in"})
        /\ Holds(p, "out", {"serve", "quit in", "quit out"})

\* The lists that the removal of the memory walks along are made.
ListsMade == \A p \in Routers : pc[p] \in Holding \ {"init"} => lists[p]

\* The kernel keeps no object.
Empty == \A j \in Kinds : obj[j] = 0

\* What a killed router leaves: the memory, if anything, and a queue for replies only beside
\* one for requests; and so does what -r has not removed yet.
Remains ==
    (\A p \in Routers : pc[p] \notin Holding) =>
        /\ obj["shm"] = 0 => Empty \/ \E p \in Routers : pc[p] \in {"rm in", "rm out"}
        /\ obj["in"] = 0 => obj["out"] = 0 \/ \E p \in Routers : pc[p] = "rm out"

\* The objects that -r has removed.
RemovedBy(p) ==
    /\ pc[p] = "rm in" => obj["shm"] = 0
    /\ pc[p] = "rm out" => obj["shm"] = 0 /\ obj["in"] = 0
    /\ pc[p] = "create shm" /\ rflag[p] => Empty
    /\ pc[p] \in {"rm shm", "rm in", "rm out"} => rflag[p]
    /\ rflag[p] => "overlap" \notin may
Removed == \A p \in Routers : RemovedBy(p)

\* Without a kill nothing is left behind.
Cleared == ~left /\ (\A p \in Routers : pc[p] \notin Holding) => Empty

\* What holds while routers are orderly.
OrderlyInv == Complete /\ ListsMade /\ Remains /\ Removed /\ Cleared

\* The inductive invariant.
LifeInv == Typed /\ (Apart => ApartInv) /\ (Orderly => OrderlyInv)

-----------------------------------------------------------------------------
\* The places of a router.
Places == Starting \cup {"off", "serve", "give up", "quit in", "quit out", "quit shm"}

\* The types, kernel, routers and clients apart.
Kernel ==
    /\ obj \in [Kinds -> 0 .. made] /\ made \in Nat
    /\ \A m \in msgs : m[1] \in 1 .. made /\ m[2] \in Clients
Ids == id \in [Routers -> [Kinds -> 0 .. made]] /\ cid \in [Clients -> [Kinds -> 0 .. made]]
Controls ==
    /\ pc \in [Routers -> Places] /\ cp \in [Clients -> {"off", "queue", "send", "wait", "attach", "on"}]
    /\ rflag \in [Routers -> BOOLEAN] /\ lists \in [Routers -> BOOLEAN]

\* The parts make up the whole.
LEMMA TypedParts == Typed <=> Kernel /\ Ids /\ Controls
BY DEF Typed, LifeTypeOK, Kernel, Ids, Controls, Places

\* An id is set.
LEMMA SetId ==
    ASSUME NEW S, NEW n \in Nat, NEW m \in Nat, n <= m, NEW f \in [S -> [Kinds -> 0 .. n]],
           NEW p \in S, NEW k \in Kinds, NEW v \in 0 .. m
    PROVE  [f EXCEPT ![p][k] = v] \in [S -> [Kinds -> 0 .. m]]
<1>1. ASSUME NEW q \in S PROVE [f EXCEPT ![p][k] = v][q] \in [Kinds -> 0 .. m]
  <2>1. f[q] \in [Kinds -> 0 .. m]
    OBVIOUS
  <2>. QED BY <2>1
<1>. QED BY <1>1

\* No id is left.
LEMMA ResetId ==
    ASSUME NEW S, NEW n \in Nat, NEW f \in [S -> [Kinds -> 0 .. n]], NEW p \in S
    PROVE  [f EXCEPT ![p] = NoIds] \in [S -> [Kinds -> 0 .. n]]
<1>1. NoIds \in [Kinds -> 0 .. n]
  BY DEF NoIds
<1>. QED BY <1>1

\* An id stays one when more objects are made.
LEMMA MoreIds ==
    ASSUME NEW S, NEW n \in Nat, NEW m \in Nat, n <= m, NEW f \in [S -> [Kinds -> 0 .. n]]
    PROVE  f \in [S -> [Kinds -> 0 .. m]]
<1>1. ASSUME NEW q \in S PROVE f[q] \in [Kinds -> 0 .. m]
  <2>1. f[q] \in [Kinds -> 0 .. n]
    OBVIOUS
  <2>. QED BY <2>1
<1>. QED BY <1>1

\* Objects are made.
LEMMA MakeTypes ==
    ASSUME Kernel, Ids, NEW p \in Routers, NEW k \in Kinds, Make(p, k), UNCHANGED cid
    PROVE  Kernel' /\ Ids'
<1>1. made + 1 \in Nat /\ made \in Nat /\ made <= made + 1 /\ made' = made + 1
  BY DEF Kernel, Make
<1>2. id' \in [Routers -> [Kinds -> 0 .. made + 1]]
  BY <1>1, SetId DEF Make, Ids
<1>3. cid' \in [Clients -> [Kinds -> 0 .. made + 1]]
  BY <1>1, MoreIds DEF Ids
<1>4. Kernel'
  BY <1>1 DEF Kernel, Make
<1>. QED BY <1>1, <1>2, <1>3, <1>4 DEF Ids

\* Objects are removed.
LEMMA RemoveTypes ==
    ASSUME Kernel, Ids, NEW p \in Routers, NEW k \in Kinds, Remove(p, k), UNCHANGED cid
    PROVE  Kernel' /\ Ids'
<1>1. made \in Nat /\ made <= made /\ made' = made /\ 0 \in 0 .. made
  BY DEF Kernel, Remove
<1>2. id' \in [Routers -> [Kinds -> 0 .. made]]
  BY <1>1, SetId DEF Remove, Ids
<1>4. Kernel'
  BY <1>1 DEF Kernel, Remove
<1>. QED BY <1>1, <1>2, <1>4 DEF Ids

\* A router ends: its ids are forgotten.
LEMMA ExitTypes ==
    ASSUME Kernel, Ids, Controls, NEW p \in Routers, Exit(p), UNCHANGED <<made, cid, cp, rflag>>
    PROVE  Ids' /\ Controls'
<1>1. made \in Nat
  BY DEF Kernel
<1>2. id' \in [Routers -> [Kinds -> 0 .. made]]
  BY <1>1, ResetId DEF Exit, Ids
<1>. QED BY <1>2 DEF Exit, Ids, Controls, GoTo, Places

\* A client gives up.
LEMMA FailTypes ==
    ASSUME Kernel, Ids, NEW c \in Clients, Fail(c), UNCHANGED <<made, id>>
    PROVE  Ids'
<1>1. made \in Nat
  BY DEF Kernel
<1>2. cid' \in [Clients -> [Kinds -> 0 .. made]]
  BY <1>1, ResetId DEF Fail, Ids
<1>. QED BY <1>2 DEF Ids

\* Every step keeps the types.
LEMMA TypedStep == ASSUME Typed, [LifeNext]_lifeVars PROVE Typed'
<1>. SUFFICES Kernel' /\ Ids' /\ Controls'
  BY TypedParts DEF Typed, LifeTypeOK, Kernel, Ids, Controls, Places
<1>0. Kernel /\ Ids /\ Controls
  BY TypedParts
<1>. DEFINE T == Kernel' /\ Ids' /\ Controls'
<1>a. "shm" \in Kinds /\ "in" \in Kinds /\ "out" \in Kinds
  BY DEF Kinds
<1>1. ASSUME NEW p \in Routers, Start(p) PROVE T
  BY <1>0, <1>1 DEF Kernel, Ids, Controls, Places, Start, GoTo, kernelVars, clientVars, Starting
<1>2. ASSUME NEW p \in Routers, rm_shm(p) PROVE T
  <2>1. Kernel' /\ Ids'
    BY <1>0, <1>2, <1>a, RemoveTypes DEF rm_shm, kernelVars, clientVars, Kernel, Ids
  <2>2. Controls'
    BY <1>0, <1>2 DEF rm_shm, GoTo, clientVars, Controls, Places, Starting
  <2>. QED BY <2>1, <2>2
<1>3. ASSUME NEW p \in Routers, NEW k \in Kinds, NEW l, NEW next \in Places, NEW rest \in Places,
             remove_queue(p, k, l, next, rest)
      PROVE  T
  <2>1. Kernel' /\ Ids'
    BY <1>0, <1>3, RemoveTypes DEF remove_queue, kernelVars, clientVars, Kernel, Ids
  <2>2. Controls'
    BY <1>0, <1>3 DEF remove_queue, GoTo, clientVars, Controls
  <2>. QED BY <2>1, <2>2
<1>4. ASSUME NEW p \in Routers, create_shm(p) PROVE T
  <2>1. CASE Make(p, "shm") /\ GoTo(p, "init") /\ UNCHANGED lists
    <3>1. Kernel' /\ Ids'
      BY <1>0, <1>4, <2>1, <1>a, MakeTypes DEF create_shm, clientVars
    <3>2. Controls'
      BY <1>0, <1>4, <2>1 DEF create_shm, GoTo, clientVars, Controls, Places, Starting
    <3>. QED BY <3>1, <3>2
  <2>2. CASE Exit(p) /\ UNCHANGED kernelVars
    BY <1>0, <1>4, <2>2, ExitTypes DEF create_shm, kernelVars, clientVars, Kernel
  <2>. QED BY <1>4, <2>1, <2>2 DEF create_shm
<1>5. ASSUME NEW p \in Routers, init_shm(p) PROVE T
  BY <1>0, <1>5 DEF init_shm, GoTo, kernelVars, clientVars, Starting, Kernel, Ids, Controls, Places
<1>6. ASSUME NEW p \in Routers, create_msg(p) PROVE T
  <2>1. Kernel' /\ Ids'
    <3>1. ASSUME NEW k \in Kinds, Make(p, k) PROVE Kernel' /\ Ids'
      BY <1>0, <1>6, <3>1, MakeTypes DEF create_msg, clientVars
    <3>2. ASSUME NEW k \in Kinds, Exists(p, k) PROVE Kernel' /\ Ids'
      <4>1. made \in Nat /\ made <= made /\ 0 \in 0 .. made
        BY <1>0 DEF Kernel
      <4>2. id' \in [Routers -> [Kinds -> 0 .. made]]
        BY <1>0, <3>2, <4>1, SetId DEF Exists, Ids
      <4>. QED BY <1>0, <1>6, <3>2, <4>2 DEF create_msg, Exists, kernelVars, clientVars, Kernel, Ids
    <3>. QED BY <1>6, <1>a, <3>1, <3>2 DEF create_msg
  <2>2. Controls'
    BY <1>0, <1>6 DEF create_msg, GoTo, clientVars, Controls, Places, Starting
  <2>. QED BY <2>1, <2>2
<1>7. ASSUME NEW p \in Routers, HandleConnect(p) PROVE T
  <2>1. id[p]["out"] \in 0 .. made /\ made \in Nat
    BY <1>0, <1>a DEF Ids, Kernel
  <2>2. Kernel'
    BY <1>0, <1>7, <2>1 DEF HandleConnect, Live, Kernel
  <2>. QED BY <1>0, <1>7, <2>2 DEF HandleConnect, routerVars, clientVars, Ids, Controls
<1>8. ASSUME NEW p \in Routers, Terminate(p) \/ Signal(p) PROVE T
  BY <1>0, <1>8 DEF Terminate, Signal, GoTo, kernelVars, clientVars, Starting, Kernel, Ids, Controls, Places
<1>9. ASSUME NEW p \in Routers, quit_shm(p) PROVE T
  <2>0. made \in Nat /\ 0 \in 0 .. made
    BY <1>0 DEF Kernel
  <2>1. Kernel'
    BY <1>0, <1>9, <1>a, <2>0 DEF quit_shm, Kernel, kernelVars
  <2>2. Exit(p) /\ UNCHANGED <<made, cid, cp, rflag>>
    BY <1>9 DEF quit_shm, clientVars, kernelVars
  <2>. QED BY <1>0, <2>1, <2>2, ExitTypes
<1>10. ASSUME NEW p \in Routers, Kill(p) PROVE T
  <2>2. Exit(p) /\ UNCHANGED <<made, cid, cp, rflag, obj, msgs>>
    BY <1>10 DEF Kill, clientVars, kernelVars
  <2>. QED BY <1>0, <2>2, ExitTypes DEF Kernel
<1>11. ASSUME NEW c \in Clients, GetQueues(c) PROVE T
  <2>1. Kernel' /\ UNCHANGED <<made, id>>
    BY <1>0, <1>11 DEF GetQueues, kernelVars, routerVars, Kernel
  <2>2. ASSUME NEW k \in Kinds, cid' = [cid EXCEPT ![c][k] = obj[k]] PROVE Ids'
    <3>1. made \in Nat /\ made <= made /\ obj[k] \in 0 .. made
      BY <1>0 DEF Kernel
    <3>2. cid' \in [Clients -> [Kinds -> 0 .. made]]
      BY <1>0, <2>2, <3>1, SetId DEF Ids
    <3>. QED BY <1>0, <2>1, <3>2 DEF Ids
  <2>3. Ids'
    BY <1>0, <1>11, <1>a, <2>1, <2>2, FailTypes DEF GetQueues
  <2>4. Controls'
    BY <1>0, <1>11 DEF GetQueues, Fail, CGoTo, routerVars, Controls
  <2>. QED BY <2>1, <2>3, <2>4
<1>12. ASSUME NEW c \in Clients, SendConnect(c) PROVE T
  <2>1. cid[c]["in"] \in 0 .. made /\ made \in Nat
    BY <1>0, <1>a DEF Ids, Kernel
  <2>2. Kernel' /\ UNCHANGED <<made, id>>
    BY <1>0, <1>12, <2>1 DEF SendConnect, Live, Kernel, routerVars
  <2>3. Ids'
    BY <1>0, <1>12, <2>2, FailTypes DEF SendConnect, Ids
  <2>4. Controls'
    BY <1>0, <1>12 DEF SendConnect, Fail, CGoTo, routerVars, Controls
  <2>. QED BY <2>2, <2>3, <2>4
<1>13. ASSUME NEW c \in Clients, GetReply(c) PROVE T
  <2>2. Kernel' /\ UNCHANGED <<made, id>>
    BY <1>0, <1>13 DEF GetReply, Kernel, routerVars
  <2>3. Ids'
    BY <1>0, <1>13, <2>2, FailTypes DEF GetReply, Ids
  <2>4. Controls'
    BY <1>0, <1>13 DEF GetReply, Fail, CGoTo, routerVars, Controls
  <2>. QED BY <2>2, <2>3, <2>4
<1>14. ASSUME NEW c \in Clients, Attach(c) PROVE T
  <2>1. Kernel' /\ UNCHANGED <<made, id>>
    BY <1>0, <1>14 DEF Attach, kernelVars, routerVars, Kernel
  <2>2. CASE cid' = [cid EXCEPT ![c]["shm"] = obj["shm"]]
    <3>1. made \in Nat /\ made <= made /\ obj["shm"] \in 0 .. made
      BY <1>0, <1>a DEF Kernel
    <3>2. cid' \in [Clients -> [Kinds -> 0 .. made]]
      BY <1>0, <1>a, <2>2, <3>1, SetId DEF Ids
    <3>. QED BY <1>0, <1>14, <2>1, <3>2 DEF Ids, Attach, Fail, CGoTo, routerVars, Controls
  <2>3. CASE Fail(c)
    <3>1. Ids'
      BY <1>0, <2>1, <2>3, FailTypes
    <3>. QED BY <1>0, <1>14, <2>1, <3>1 DEF Attach, Fail, CGoTo, routerVars, Controls
  <2>. QED BY <1>14, <2>2, <2>3 DEF Attach
<1>15. ASSUME NEW c \in Clients, Leave(c) PROVE T
  <2>2. Kernel' /\ UNCHANGED <<made, id>>
    BY <1>0, <1>15 DEF Leave, Kernel, kernelVars, routerVars
  <2>3. Ids'
    BY <1>0, <1>15, <2>2, FailTypes DEF Leave
  <2>4. Controls'
    BY <1>0, <1>15 DEF Leave, Fail, CGoTo, routerVars, Controls
  <2>. QED BY <2>2, <2>3, <2>4
<1>16. ASSUME UNCHANGED lifeVars PROVE T
  BY <1>0, <1>16 DEF lifeVars, kernelVars, routerVars, clientVars, Kernel, Ids, Controls
<1>. HIDE DEF T
<1>17. T
  BY <1>1, <1>2, <1>3, <1>4, <1>5, <1>6, <1>7, <1>8, <1>9, <1>10, <1>11, <1>12, <1>13, <1>14,
     <1>15, <1>16, <1>a DEF LifeNext, main, remove_msg, router_connect, Places, Starting
<1>. QED BY <1>17 DEF T
-----------------------------------------------------------------------------
(* Routers that are apart *)

\* A step of router p, as the others and the clients see it.
Alone(p) ==
    /\ \A q \in Routers \ {p} : pc'[q] = pc[q] /\ id'[q] = id[q]
    /\ UNCHANGED <<may, cp, cid>>

\* What such a step must not do to the lock.
KeepsLock(p) ==
    /\ pc'[p] \in Before => id'[p] = NoIds
    /\ pc'[p] \in Holding => pc[p] \in Holding \/ \A q \in Routers \ {p} : pc[q] \notin Holding
    /\ "overlap" \notin may /\ pc'[p] # "off" => Going(p) \/ \A q \in Routers : ~Going(q)
    /\ obj'["shm"] = obj["shm"] \/ \A q \in Routers \ {p} : pc[q] \notin Holding
    /\ pc'[p] \in Making => HasMemory(p)'
    /\ pc'[p] \in Holding /\ "overlap" \in may => HasMemory(p)'
    /\ "overlap" \in may => pc'[p] \in {"off", "create shm"} \cup Holding

\* What it must not do to the queue.
KeepsQueue(p) ==
    pc'[p] \in {"create out", "serve"} =>
        /\ id'[p]["in"] # 0 /\ id'[p]["shm"] = id[p]["shm"]
        /\ \/ pc[p] \in {"create out", "serve"} /\ id'[p]["in"] = id[p]["in"]
           \/ id'[p]["in"] = made + 1

\* A step that keeps the lock and the queue keeps routers apart.
LEMMA ApartKept ==
    ASSUME LifeInv, Apart, NEW p \in Routers, Alone(p), KeepsLock(p), KeepsQueue(p), ~robbed'
    PROVE  ApartInv'
<1>0. ApartInv /\ Typed
  BY DEF LifeInv
<1>1. NoIdBefore'
  BY <1>0 DEF ApartInv, NoIdBefore, Alone, KeepsLock
<1>2. OneHolds'
  BY <1>0 DEF ApartInv, OneHolds, Alone, KeepsLock
<1>3. OneGoes'
  BY <1>0 DEF ApartInv, OneGoes, Going, Alone, KeepsLock
<1>4. MemoryHeld'
  <2>1. ASSUME NEW q \in Routers, q # p, pc'[q] \in Holding, HasMemory(q) PROVE HasMemory(q)'
    BY <2>1 DEF Alone, KeepsLock, HasMemory
  <2>2. Making \subseteq Holding
    BY DEF Holding
  <2>. QED BY <1>0, <2>1, <2>2 DEF ApartInv, MemoryHeld, Alone, KeepsLock
<1>5. Plain'
  BY <1>0 DEF ApartInv, Plain, Alone, KeepsLock
<1>6. HasQueue'
  BY <1>0 DEF ApartInv, HasQueue, Alone, KeepsQueue
<1>7. Paired'
  <2>1. ASSUME NEW c \in Clients, cp[c] = "on", pc'[p] \in {"create out", "serve"},
               cid[c]["in"] = id'[p]["in"]
        PROVE  cid[c]["shm"] = id'[p]["shm"]
    <3>1. cid[c]["in"] \in 0 .. made /\ made \in Nat
      BY <1>0, TypedParts DEF Ids, Kernel, Kinds
    <3>2. PICK i \in 0 .. made : i = cid[c]["in"]
      BY <3>1
    <3>3. i # made + 1
      BY <3>1
    <3>4. id'[p]["in"] # made + 1
      BY <2>1, <3>2, <3>3
    <3>5. pc[p] \in {"create out", "serve"} /\ id'[p]["in"] = id[p]["in"]
      BY <2>1, <3>4 DEF KeepsQueue
    <3>. QED BY <1>0, <2>1, <3>5 DEF ApartInv, Paired, KeepsQueue
  <2>2. ASSUME NEW c \in Clients, NEW q \in Routers, q # p, cp[c] = "on",
               pc'[q] \in {"create out", "serve"}, cid[c]["in"] = id'[q]["in"]
        PROVE  cid[c]["shm"] = id'[q]["shm"]
    <3>1. pc'[q] = pc[q] /\ id'[q] = id[q]
      BY <2>2 DEF Alone
    <3>. QED BY <1>0, <2>2, <3>1 DEF ApartInv, Paired
  <2>3. cp' = cp /\ cid' = cid
    BY DEF Alone
  <2>. QED BY <2>1, <2>2, <2>3 DEF Paired
<1>. QED BY <1>1, <1>2, <1>3, <1>4, <1>5, <1>6, <1>7 DEF ApartInv

\* The only router that holds anything, or is at all.
LEMMA Others ==
    ASSUME LifeInv, Apart, NEW p \in Routers, Going(p)
    PROVE  /\ "overlap" \notin may => \A q \in Routers \ {p} : pc[q] = "off"
           /\ pc[p] \in Holding => \A q \in Routers \ {p} : pc[q] \notin Holding
           /\ obj["shm"] = 0 /\ pc[p] \notin Holding => \A q \in Routers \ {p} : pc[q] \notin Holding
<1>1. ApartInv
  BY DEF LifeInv
<1>2. ASSUME NEW q \in Routers, q # p, pc[q] \in Holding, pc[p] \notin Holding PROVE obj["shm"] # 0
  <2>1. Going(q)
    BY <1>2 DEF Going, Holding, Making, Closing
  <2>2. "overlap" \in may
    BY <1>1, <1>2, <2>1 DEF ApartInv, OneGoes
  <2>. QED BY <1>1, <1>2, <2>2 DEF ApartInv, MemoryHeld, HasMemory
<1>3. "overlap" \notin may => \A q \in Routers \ {p} : pc[q] = "off"
  BY <1>1 DEF ApartInv, OneGoes, Going
<1>4. pc[p] \in Holding => \A q \in Routers \ {p} : pc[q] \notin Holding
  BY <1>1 DEF ApartInv, OneHolds
<1>. QED BY <1>2, <1>3, <1>4

\* One id of a router is v now.
IdIs(p, k, v) ==
    /\ id'[p] \in [Kinds -> Nat]
    /\ id'[p][k] = v /\ \A j \in Kinds \ {k} : id'[p][j] = id[p][j]
    /\ \A q \in Routers \ {p} : id'[q] = id[q]

\* A place is changed.
LEMMA PcAt ==
    ASSUME Typed, NEW p \in Routers, NEW l, GoTo(p, l)
    PROVE  pc'[p] = l /\ \A q \in Routers \ {p} : pc'[q] = pc[q]
BY TypedParts DEF GoTo, Controls

\* One id of a router is set.
LEMMA IdAt ==
    ASSUME Typed, NEW p \in Routers, NEW k \in Kinds, NEW v \in Nat, id' = [id EXCEPT ![p][k] = v]
    PROVE  IdIs(p, k, v)
<1>1. id \in [Routers -> [Kinds -> 0 .. made]] /\ id[p] \in [Kinds -> 0 .. made] /\ made \in Nat
  BY TypedParts DEF Ids, Kernel
<1>2. id'[p] = [id[p] EXCEPT ![k] = v] /\ \A q \in Routers \ {p} : id'[q] = id[q]
  BY <1>1
<1>3. id'[p] \in [Kinds -> Nat]
  BY <1>1, <1>2
<1>. QED BY <1>1, <1>2, <1>3 DEF IdIs

\* A router ends: it has no ids.
LEMMA IdReset ==
    ASSUME Typed, NEW p \in Routers, Exit(p)
    PROVE  /\ pc'[p] = "off" /\ id'[p] = NoIds
           /\ \A q \in Routers \ {p} : pc'[q] = pc[q] /\ id'[q] = id[q]
<1>1. id \in [Routers -> [Kinds -> 0 .. made]]
  BY TypedParts DEF Ids
<1>. QED BY <1>1, PcAt DEF Exit

\* The ids of a router that has none.
LEMMA NoIdsAre ==
    /\ \A k \in Kinds : NoIds[k] = 0
    /\ \A f, S : f \in [Kinds -> S] /\ (\A k \in Kinds : f[k] = 0) => f = NoIds
BY DEF NoIds

\* A removal takes nothing from a router that has the id of the object.
LEMMA TakesNothing ==
    ASSUME LifeInv, Apart, NEW p \in Routers, NEW k \in Kinds, Live(k, Target(p, k)),
           ("overlap" \notin may /\ Going(p)) \/ pc[p] \in Holding
    PROVE  ~ \E q \in Routers \ {p} : Going(q) /\ id[q][k] = Target(p, k)
<1>1. ApartInv
  BY DEF LifeInv
<1>2. Going(p)
  BY DEF Going, Holding, Making, Closing
<1>3. SUFFICES ASSUME NEW q \in Routers \ {p}, Going(q), id[q][k] = Target(p, k) PROVE FALSE
  OBVIOUS
<1>4. "overlap" \in may /\ pc[p] \in Holding
  BY <1>1, <1>2, <1>3 DEF ApartInv, OneGoes
<1>5. pc[q] \notin Holding
  BY <1>1, <1>4 DEF ApartInv, OneHolds
<1>6. pc[q] = "create shm"
  BY <1>1, <1>3, <1>4, <1>5 DEF ApartInv, Plain, Going
<1>7. id[q] = NoIds
  BY <1>1, <1>6 DEF ApartInv, NoIdBefore, Before
<1>. QED BY <1>3, <1>7, NoIdsAre DEF Live

\* A router starts.
LEMMA ApartStart ==
    ASSUME LifeInv, Apart, NEW p \in Routers, Start(p), UNCHANGED may PROVE ApartInv'
<1>0. ApartInv /\ Typed
  BY DEF LifeInv
<1>1. PICK r \in {FALSE} \cup (IF "-r" \in may THEN {TRUE} ELSE {}) :
        GoTo(p, IF r THEN "rm shm" ELSE "create shm")
  BY DEF Start
<1>2. /\ pc'[p] = (IF r THEN "rm shm" ELSE "create shm")
      /\ \A q \in Routers \ {p} : pc'[q] = pc[q]
  BY <1>0, <1>1, PcAt
<1>3. pc[p] = "off" /\ UNCHANGED <<id, obj, robbed, cp, cid>>
  BY DEF Start, kernelVars, clientVars
<1>4. "overlap" \in may => ~r
  BY <1>1 DEF Apart
<1>5. Alone(p)
  BY <1>2, <1>3 DEF Alone
<1>6. KeepsLock(p)
  <2>1. id[p] = NoIds
    BY <1>0, <1>3 DEF ApartInv, NoIdBefore, Before
  <2>2. pc'[p] \in Before /\ pc'[p] \notin Holding /\ pc'[p] \notin Making
    BY <1>2 DEF Before, Holding, Making, Closing
  <2>3. "overlap" \notin may => \A q \in Routers : ~Going(q)
    BY DEF Start
  <2>. QED BY <1>2, <1>3, <1>4, <2>1, <2>2, <2>3 DEF KeepsLock
<1>7. KeepsQueue(p)
  BY <1>2 DEF KeepsQueue
<1>. QED BY <1>0, <1>3, <1>5, <1>6, <1>7, ApartKept DEF ApartInv

\* A removal by -r: there is no other router.
LEMMA ApartRemove ==
    ASSUME LifeInv, Apart, NEW p \in Routers, NEW k \in Kinds,
           NEW l \in {"rm in", "rm out", "create shm"}, pc[p] \in {"rm shm", "rm in", "rm out"},
           GoTo(p, l), UNCHANGED <<may, cp, cid>>,
           \/ Live(k, Target(p, k)) /\ Remove(p, k)
           \/ UNCHANGED <<id, obj, robbed>>
    PROVE  ApartInv'
<1>0. ApartInv /\ Typed
  BY DEF LifeInv
<1>1. pc'[p] = l /\ \A q \in Routers \ {p} : pc'[q] = pc[q]
  BY <1>0, PcAt
<1>2. "overlap" \notin may /\ Going(p)
  BY <1>0 DEF ApartInv, Plain, Holding, Making, Closing, Going
<1>3. \A q \in Routers \ {p} : pc[q] \notin Holding
  BY <1>2, Others DEF Holding, Making, Closing
<1>4. id[p] = NoIds
  BY <1>0 DEF ApartInv, NoIdBefore, Before
<1>5. id'[p] = NoIds /\ \A q \in Routers \ {p} : id'[q] = id[q]
  <2>1. CASE Remove(p, k)
    <3>1. id' = [id EXCEPT ![p][k] = 0]
      BY <2>1 DEF Remove
    <3>2. IdIs(p, k, 0)
      BY <1>0, <3>1, IdAt
    <3>3. \A j \in Kinds : id'[p][j] = 0
      BY <1>4, <3>2, NoIdsAre DEF IdIs
    <3>. QED BY <3>2, <3>3, NoIdsAre DEF IdIs
  <2>. QED BY <1>4, <2>1
<1>6. ~robbed'
  BY <1>0, <1>2, TakesNothing DEF Remove, ApartInv
<1>7. Alone(p)
  BY <1>1, <1>5 DEF Alone
<1>8. KeepsLock(p)
  <2>1. pc'[p] \in Before /\ pc'[p] \notin Holding /\ pc'[p] \notin Making
    BY <1>1 DEF Before, Holding, Making, Closing
  <2>. QED BY <1>2, <1>3, <1>5, <2>1 DEF KeepsLock
<1>9. KeepsQueue(p)
  BY <1>1 DEF KeepsQueue
<1>. QED BY <1>6, <1>7, <1>8, <1>9, ApartKept

\* A queue is removed at the end.
LEMMA ApartQuitQueue ==
    ASSUME LifeInv, Apart, NEW p \in Routers, NEW k \in {"in", "out"},
           NEW l \in {"quit out", "quit shm"}, pc[p] \in {"quit in", "quit out"},
           GoTo(p, l), UNCHANGED <<may, cp, cid>>,
           \/ Live(k, Target(p, k)) /\ Remove(p, k)
           \/ UNCHANGED <<id, obj, robbed>>
    PROVE  ApartInv'
<1>0. ApartInv /\ Typed /\ k \in Kinds /\ "shm" \in Kinds \ {k}
  BY DEF LifeInv, Kinds
<1>1. pc'[p] = l /\ \A q \in Routers \ {p} : pc'[q] = pc[q]
  BY <1>0, PcAt
<1>2. pc[p] \in Holding /\ Going(p)
  BY DEF Holding, Closing, Going
<1>3. id'[p]["shm"] = id[p]["shm"] /\ \A q \in Routers \ {p} : id'[q] = id[q]
  <2>1. CASE Remove(p, k)
    <3>1. id' = [id EXCEPT ![p][k] = 0]
      BY <2>1 DEF Remove
    <3>2. IdIs(p, k, 0)
      BY <1>0, <3>1, IdAt
    <3>. QED BY <1>0, <3>2 DEF IdIs
  <2>. QED BY <2>1
<1>4. obj'["shm"] = obj["shm"]
  BY <1>0, TypedParts DEF Remove, Kernel
<1>5. ~robbed'
  BY <1>0, <1>2, TakesNothing DEF Remove, ApartInv
<1>6. Alone(p)
  BY <1>1, <1>3 DEF Alone
<1>7. KeepsLock(p)
  <2>1. pc'[p] \in Holding /\ pc'[p] \notin Before /\ pc'[p] \notin Making
    BY <1>1 DEF Before, Holding, Making, Closing
  <2>2. "overlap" \in may => HasMemory(p)
    BY <1>0, <1>2 DEF ApartInv, MemoryHeld
  <2>. QED BY <1>2, <1>3, <1>4, <2>1, <2>2 DEF KeepsLock, HasMemory
<1>8. KeepsQueue(p)
  BY <1>1 DEF KeepsQueue
<1>. QED BY <1>5, <1>6, <1>7, <1>8, ApartKept

\* It makes its memory, or gives up because there is one.
LEMMA ApartCreateShm ==
    ASSUME LifeInv, Apart, NEW p \in Routers, create_shm(p), UNCHANGED may PROVE ApartInv'
<1>0. ApartInv /\ Typed /\ "shm" \in Kinds
  BY DEF LifeInv, Kinds
<1>1. pc[p] = "create shm" /\ UNCHANGED <<robbed, cp, cid>>
  BY DEF create_shm, clientVars
<1>2. Going(p) /\ pc[p] \notin Holding
  BY <1>1 DEF Going, Holding, Making, Closing
<1>3. CASE Make(p, "shm") /\ GoTo(p, "init")
  <2>1. pc'[p] = "init" /\ \A q \in Routers \ {p} : pc'[q] = pc[q]
    BY <1>0, <1>3, PcAt
  <2>2. id' = [id EXCEPT ![p]["shm"] = made + 1] /\ obj["shm"] = 0
        /\ obj' = [obj EXCEPT !["shm"] = made + 1]
    BY <1>3 DEF Make
  <2>3. id'[p]["shm"] = made + 1 /\ \A q \in Routers \ {p} : id'[q] = id[q]
    <3>1. made + 1 \in Nat
      BY <1>0, TypedParts DEF Kernel
    <3>2. IdIs(p, "shm", made + 1)
      BY <1>0, <2>2, <3>1, IdAt
    <3>. QED BY <3>2 DEF IdIs
  <2>4. obj'["shm"] = made + 1 /\ made + 1 # 0
    BY <1>0, <2>2, TypedParts DEF Kernel
  <2>5. \A q \in Routers \ {p} : pc[q] \notin Holding
    BY <1>2, <2>2, Others
  <2>6. Alone(p)
    BY <1>1, <2>1, <2>3 DEF Alone
  <2>7. KeepsLock(p)
    <3>1. pc'[p] \in Holding /\ pc'[p] \notin Before
      BY <2>1 DEF Before, Holding, Making, Closing
    <3>. QED BY <1>2, <2>3, <2>4, <2>5, <3>1 DEF KeepsLock, HasMemory
  <2>8. KeepsQueue(p)
    BY <2>1 DEF KeepsQueue
  <2>. QED BY <1>0, <1>1, <2>6, <2>7, <2>8, ApartKept DEF ApartInv
<1>4. CASE Exit(p) /\ UNCHANGED kernelVars
  <2>1. /\ pc'[p] = "off" /\ id'[p] = NoIds
        /\ \A q \in Routers \ {p} : pc'[q] = pc[q] /\ id'[q] = id[q]
    BY <1>0, <1>4, IdReset
  <2>2. Alone(p)
    BY <1>1, <2>1 DEF Alone
  <2>3. KeepsLock(p)
    BY <1>4, <2>1 DEF KeepsLock, kernelVars, Holding, Making, Closing
  <2>4. KeepsQueue(p)
    BY <2>1 DEF KeepsQueue
  <2>. QED BY <1>0, <1>1, <2>2, <2>3, <2>4, ApartKept DEF ApartInv
<1>. QED BY <1>3, <1>4 DEF create_shm

\* A step of a router that goes on holding its memory.
LEMMA ApartHolding ==
    ASSUME LifeInv, Apart, NEW p \in Routers, pc[p] \in Holding, pc'[p] \in Holding, Alone(p),
           pc'[p] \in Making => pc[p] \in Making,
           id'[p]["shm"] = id[p]["shm"], obj'["shm"] = obj["shm"], robbed' = robbed, KeepsQueue(p)
    PROVE  ApartInv'
<1>0. ApartInv
  BY DEF LifeInv
<1>1. pc'[p] \notin Before /\ Going(p)
  BY DEF Before, Holding, Making, Closing, Going
<1>2. KeepsLock(p)
  BY <1>0, <1>1 DEF KeepsLock, HasMemory, ApartInv, MemoryHeld, Holding
<1>. QED BY <1>0, <1>2, ApartKept DEF ApartInv

\* It makes its lists.
LEMMA ApartInitShm ==
    ASSUME LifeInv, Apart, NEW p \in Routers, init_shm(p), UNCHANGED may PROVE ApartInv'
<1>1. pc'[p] = "create in" /\ \A q \in Routers \ {p} : pc'[q] = pc[q]
  BY PcAt DEF LifeInv, init_shm
<1>2. pc[p] = "init" /\ UNCHANGED <<id, obj, robbed, cp, cid>>
  BY DEF init_shm, kernelVars, clientVars
<1>3. Alone(p) /\ KeepsQueue(p)
  BY <1>1, <1>2 DEF Alone, KeepsQueue
<1>4. pc[p] \in Making /\ pc[p] \in Holding /\ pc'[p] \in Holding
  BY <1>1, <1>2 DEF Holding, Making
<1>. QED BY <1>2, <1>3, <1>4, ApartHolding

\* It makes a queue, or finds that there is one.
LEMMA ApartCreateMsg ==
    ASSUME LifeInv, Apart, NEW p \in Routers, create_msg(p), UNCHANGED may PROVE ApartInv'
<1>0. ApartInv /\ Typed /\ "in" \in Kinds /\ "out" \in Kinds /\ "shm" \in Kinds
  BY DEF LifeInv, Kinds
<1>1. UNCHANGED <<robbed, cp, cid>> /\ made \in Nat /\ made + 1 \in Nat /\ made + 1 # 0
  <2>1. made \in Nat
    BY <1>0, TypedParts DEF Kernel
  <2>2. UNCHANGED <<robbed, cp, cid>>
    BY DEF create_msg, clientVars
  <2>. QED BY <2>1, <2>2
<1>a. obj \in [Kinds -> 0 .. made]
  BY <1>0, TypedParts DEF Kernel
<1>2. CASE pc[p] = "create in" /\ Make(p, "in") /\ GoTo(p, "create out")
  <2>1. pc'[p] = "create out" /\ \A q \in Routers \ {p} : pc'[q] = pc[q]
    BY <1>0, <1>2, PcAt
  <2>2. IdIs(p, "in", made + 1)
    <3>1. id' = [id EXCEPT ![p]["in"] = made + 1]
      BY <1>2 DEF Make
    <3>. QED BY <1>0, <1>1, <3>1, IdAt
  <2>3. id'[p]["in"] = made + 1 /\ id'[p]["shm"] = id[p]["shm"]
    BY <1>0, <2>2 DEF IdIs
  <2>4. obj'["shm"] = obj["shm"]
    BY <1>0, <1>2, <1>a DEF Make
  <2>5. Alone(p)
    BY <1>1, <2>1, <2>2 DEF Alone, IdIs
  <2>6. KeepsQueue(p)
    BY <1>1, <2>3 DEF KeepsQueue
  <2>7. pc[p] \in Making /\ pc[p] \in Holding /\ pc'[p] \in Holding
    BY <1>2, <2>1 DEF Holding, Making
  <2>. QED BY <1>1, <2>3, <2>4, <2>5, <2>6, <2>7, ApartHolding
<1>3. CASE pc[p] = "create in" /\ Exists(p, "in") /\ GoTo(p, "give up")
  <2>1. pc'[p] = "give up" /\ \A q \in Routers \ {p} : pc'[q] = pc[q]
    BY <1>0, <1>3, PcAt
  <2>2. IdIs(p, "in", 0)
    <3>1. id' = [id EXCEPT ![p]["in"] = 0]
      BY <1>3 DEF Exists
    <3>. QED BY <1>0, <3>1, IdAt
  <2>3. id'[p]["shm"] = id[p]["shm"]
    BY <1>0, <2>2 DEF IdIs
  <2>4. obj'["shm"] = obj["shm"]
    BY <1>3 DEF Exists, kernelVars
  <2>5. Alone(p)
    BY <1>1, <2>1, <2>2 DEF Alone, IdIs
  <2>6. KeepsQueue(p)
    BY <2>1 DEF KeepsQueue
  <2>7. pc[p] \in Making /\ pc[p] \in Holding /\ pc'[p] \in Holding
    BY <1>3, <2>1 DEF Holding, Making, Closing
  <2>. QED BY <1>1, <2>3, <2>4, <2>5, <2>6, <2>7, ApartHolding
<1>4. CASE pc[p] = "create out" /\ (Make(p, "out") \/ Exists(p, "out")) /\ GoTo(p, "serve")
  <2>1. pc'[p] = "serve" /\ \A q \in Routers \ {p} : pc'[q] = pc[q]
    BY <1>0, <1>4, PcAt
  <2>2. IdIs(p, "out", made + 1) \/ IdIs(p, "out", 0)
    <3>1. CASE Make(p, "out")
      <4>1. id' = [id EXCEPT ![p]["out"] = made + 1]
        BY <3>1 DEF Make
      <4>. QED BY <1>0, <1>1, <4>1, IdAt
    <3>2. CASE Exists(p, "out")
      <4>1. id' = [id EXCEPT ![p]["out"] = 0]
        BY <3>2 DEF Exists
      <4>. QED BY <1>0, <1>1, <4>1, IdAt
    <3>. QED BY <1>4, <3>1, <3>2
  <2>3. id'[p]["in"] = id[p]["in"] /\ id'[p]["shm"] = id[p]["shm"]
    BY <1>0, <2>2 DEF IdIs
  <2>4. obj'["shm"] = obj["shm"]
    BY <1>0, <1>4, <1>a DEF Make, Exists, kernelVars
  <2>5. Alone(p)
    BY <1>1, <2>1, <2>2 DEF Alone, IdIs
  <2>6. KeepsQueue(p)
    BY <1>0, <1>4, <2>3 DEF KeepsQueue, ApartInv, HasQueue
  <2>7. pc[p] \in Making /\ pc[p] \in Holding /\ pc'[p] \in Holding
    BY <1>4, <2>1 DEF Holding, Making
  <2>. QED BY <1>1, <2>3, <2>4, <2>5, <2>6, <2>7, ApartHolding
<1>. QED BY <1>2, <1>3, <1>4 DEF create_msg

\* It answers a client.
LEMMA ApartHandleConnect ==
    ASSUME LifeInv, Apart, NEW p \in Routers, HandleConnect(p), UNCHANGED may PROVE ApartInv'
<1>0. ApartInv
  BY DEF LifeInv
<1>1. pc[p] = "serve" /\ UNCHANGED <<pc, id, obj, robbed, cp, cid>>
  BY DEF HandleConnect, routerVars, clientVars
<1>2. Alone(p)
  BY <1>1 DEF Alone
<1>3. KeepsQueue(p)
  BY <1>0, <1>1 DEF KeepsQueue, ApartInv, HasQueue
<1>4. pc[p] \in Making /\ pc[p] \in Holding /\ pc'[p] \in Holding
  BY <1>1 DEF Holding, Making
<1>. QED BY <1>1, <1>2, <1>3, <1>4, ApartHolding

\* It is told to end, or a signal ends it: while it starts, only when there is no other.
LEMMA ApartToQuit ==
    ASSUME LifeInv, Apart, NEW p \in Routers, Terminate(p) \/ Signal(p), UNCHANGED may
    PROVE  ApartInv'
<1>0. ApartInv /\ Typed
  BY DEF LifeInv
<1>1. pc'[p] = "quit in" /\ \A q \in Routers \ {p} : pc'[q] = pc[q]
  BY <1>0, PcAt DEF Terminate, Signal
<1>2. UNCHANGED <<id, obj, robbed, cp, cid>>
  BY DEF Terminate, Signal, kernelVars, clientVars
<1>3. Alone(p) /\ KeepsQueue(p)
  BY <1>1, <1>2 DEF Alone, KeepsQueue
<1>4. pc'[p] \in Holding /\ pc'[p] \notin Making /\ pc'[p] \notin Before
  BY <1>1 DEF Holding, Making, Closing, Before
<1>5. CASE pc[p] \in Holding
  BY <1>2, <1>3, <1>4, <1>5, ApartHolding
<1>6. CASE pc[p] \notin Holding
  <2>1. "signal at start" \in may /\ Going(p)
    BY <1>6 DEF Terminate, Signal, Starting, Holding, Making, Closing, Going
  <2>2. "overlap" \notin may
    BY <2>1 DEF Apart
  <2>3. \A q \in Routers \ {p} : pc[q] \notin Holding
    BY <2>1, <2>2, Others DEF Holding, Making, Closing
  <2>4. KeepsLock(p)
    BY <1>4, <2>1, <2>2, <2>3 DEF KeepsLock
  <2>. QED BY <1>0, <1>2, <1>3, <2>4, ApartKept DEF ApartInv
<1>. QED BY <1>5, <1>6

\* It ends, its memory is removed; or it is killed.
LEMMA ApartEnd ==
    ASSUME LifeInv, Apart, NEW p \in Routers, quit_shm(p) \/ Kill(p), UNCHANGED may
    PROVE  ApartInv'
<1>0. ApartInv /\ Typed /\ "shm" \in Kinds
  BY DEF LifeInv, Kinds
<1>1. /\ pc'[p] = "off" /\ id'[p] = NoIds
      /\ \A q \in Routers \ {p} : pc'[q] = pc[q] /\ id'[q] = id[q]
  BY <1>0, IdReset DEF quit_shm, Kill
<1>2. UNCHANGED <<cp, cid>>
  BY DEF quit_shm, Kill, clientVars
<1>3. Alone(p) /\ KeepsQueue(p)
  BY <1>1, <1>2 DEF Alone, KeepsQueue
<1>4. (obj'["shm"] = obj["shm"] /\ robbed' = robbed) \/ pc[p] \in Holding
  BY DEF quit_shm, Kill, kernelVars, Holding, Closing
<1>5. KeepsLock(p)
  <2>1. obj'["shm"] = obj["shm"] \/ \A q \in Routers \ {p} : pc[q] \notin Holding
    BY <1>0, <1>4 DEF ApartInv, OneHolds
  <2>2. pc'[p] \in Before /\ pc'[p] \notin Holding /\ pc'[p] \notin Making
    BY <1>1 DEF Before, Holding, Making, Closing
  <2>. QED BY <1>1, <2>1, <2>2 DEF KeepsLock
<1>6. ~robbed'
  <2>1. CASE robbed' = robbed
    BY <1>0, <2>1 DEF ApartInv
  <2>2. CASE quit_shm(p) /\ robbed' # robbed
    <3>1. pc[p] \in Holding /\ Live("shm", Target(p, "shm"))
      BY <2>2 DEF quit_shm, Holding, Closing
    <3>2. ~ \E q \in Routers \ {p} : Going(q) /\ id[q]["shm"] = Target(p, "shm")
      BY <1>0, <3>1, TakesNothing
    <3>. QED BY <1>0, <2>2, <3>2 DEF quit_shm, ApartInv
  <2>. QED BY <2>1, <2>2 DEF Kill
<1>. QED BY <1>3, <1>5, <1>6, ApartKept

\* A step of a client: the router whose queue it has asked has the memory it attaches.
LEMMA ApartClient ==
    ASSUME LifeInv, Apart, NEW c \in Clients, router_connect(c) \/ Leave(c), UNCHANGED may
    PROVE  ApartInv'
<1>0. ApartInv /\ Typed /\ Kernel /\ Ids /\ Controls
  BY TypedParts DEF LifeInv
<1>1. UNCHANGED <<pc, id, obj, robbed>>
  BY DEF router_connect, GetQueues, SendConnect, GetReply, Attach, Leave, kernelVars, routerVars
<1>2. (NoIdBefore /\ OneHolds /\ OneGoes /\ MemoryHeld /\ Plain /\ HasQueue /\ ~robbed)'
  BY <1>0, <1>1 DEF ApartInv, NoIdBefore, OneHolds, OneGoes, Going, MemoryHeld, HasMemory, Plain, HasQueue
<1>3. \A d \in Clients \ {c} : cp'[d] = cp[d] /\ cid'[d] = cid[d]
  BY <1>0 DEF router_connect, GetQueues, SendConnect, GetReply, Attach, Leave, Fail, CGoTo, Controls, Ids
<1>4. cp'[c] = "on" => cid'[c]["shm"] = obj["shm"]
  <2>1. ASSUME cp'[c] = "on" PROVE cid' = [cid EXCEPT ![c]["shm"] = obj["shm"]]
    BY <1>0, <2>1 DEF router_connect, GetQueues, SendConnect, GetReply, Attach, Leave, Fail, CGoTo, Controls
  <2>2. cid[c] \in [Kinds -> 0 .. made] /\ "shm" \in Kinds
    BY <1>0 DEF Ids, Kinds
  <2>3. ASSUME cp'[c] = "on" PROVE cid'[c] = [cid[c] EXCEPT !["shm"] = obj["shm"]]
    BY <1>0, <2>1, <2>3 DEF Ids
  <2>. QED BY <2>2, <2>3
<1>5. Paired'
  <2>1. ASSUME NEW p \in Routers, pc[p] \in {"create out", "serve"} PROVE id[p]["shm"] = obj["shm"]
    BY <1>0, <2>1 DEF ApartInv, MemoryHeld, Making, HasMemory
  <2>2. SUFFICES ASSUME NEW d \in Clients, NEW p \in Routers, cp'[d] = "on",
                        pc[p] \in {"create out", "serve"}, cid'[d]["in"] = id[p]["in"]
                 PROVE  cid'[d]["shm"] = id[p]["shm"]
    BY <1>1 DEF Paired
  <2>3. CASE d = c
    BY <1>4, <2>1, <2>2, <2>3
  <2>4. CASE d # c
    BY <1>0, <1>3, <2>2, <2>4 DEF ApartInv, Paired
  <2>. QED BY <2>3, <2>4
<1>. QED BY <1>2, <1>5 DEF ApartInv

\* Every step keeps routers apart.
LEMMA ApartStep == ASSUME LifeInv, Apart, [LifeNext]_lifeVars PROVE ApartInv'
<1>1. CASE UNCHANGED lifeVars
  BY <1>1 DEF LifeInv, ApartInv, NoIdBefore, OneHolds, OneGoes, Going, MemoryHeld, HasMemory, Plain,
     HasQueue, Paired, lifeVars, kernelVars, routerVars, clientVars
<1>2. ASSUME NEW p \in Routers, UNCHANGED may, rm_shm(p) PROVE ApartInv'
  <2>1. "shm" \in Kinds /\ Target(p, "shm") = obj["shm"]
    BY <1>2 DEF rm_shm, LifeInv, ApartInv, NoIdBefore, Before, NoIds, Target, Kinds
  <2>. QED BY <1>2, <2>1, ApartRemove DEF rm_shm, kernelVars, clientVars
<1>3. ASSUME NEW p \in Routers, UNCHANGED may, remove_msg(p, "rm in", "rm out", "create shm")
      PROVE  ApartInv'
  <2>1. ASSUME NEW k \in Kinds, NEW l, NEW next \in {"rm out", "create shm"}, l \in {"rm in", "rm out"},
               remove_queue(p, k, l, next, "create shm")
        PROVE  ApartInv'
    <3>1. pc[p] = l /\ UNCHANGED <<cp, cid>>
      BY <2>1 DEF remove_queue, clientVars
    <3>2. CASE Live(k, Target(p, k)) /\ Remove(p, k) /\ GoTo(p, next)
      BY <1>3, <2>1, <3>1, <3>2, ApartRemove
    <3>3. CASE GoTo(p, "create shm") /\ UNCHANGED <<id, obj, robbed>>
      BY <1>3, <2>1, <3>1, <3>3, ApartRemove
    <3>. QED BY <2>1, <3>2, <3>3 DEF remove_queue, kernelVars
  <2>. QED BY <1>3, <2>1 DEF remove_msg, Kinds
<1>4. ASSUME NEW p \in Routers, UNCHANGED may, remove_msg(p, "quit in", "quit out", "quit shm")
      PROVE  ApartInv'
  <2>1. ASSUME NEW k \in {"in", "out"}, NEW l, NEW next \in {"quit out", "quit shm"},
               l \in {"quit in", "quit out"}, remove_queue(p, k, l, next, "quit shm")
        PROVE  ApartInv'
    <3>1. pc[p] = l /\ UNCHANGED <<cp, cid>>
      BY <2>1 DEF remove_queue, clientVars
    <3>2. CASE Live(k, Target(p, k)) /\ Remove(p, k) /\ GoTo(p, next)
      BY <1>4, <2>1, <3>1, <3>2, ApartQuitQueue
    <3>3. CASE GoTo(p, "quit shm") /\ UNCHANGED <<id, obj, robbed>>
      BY <1>4, <2>1, <3>1, <3>3, ApartQuitQueue
    <3>. QED BY <2>1, <3>2, <3>3 DEF remove_queue, kernelVars
  <2>. QED BY <1>4, <2>1 DEF remove_msg
<1>. QED BY <1>1, <1>2, <1>3, <1>4, ApartStart, ApartCreateShm, ApartInitShm, ApartCreateMsg,
     ApartHandleConnect, ApartToQuit, ApartEnd, ApartClient DEF LifeNext, main

-----------------------------------------------------------------------------
(* Orderly routers *)

\* Nothing else goes on, or it is not started with -r.
Acts(p) == "overlap" \in may \/ \A q \in Routers \ {p} : pc[q] = "off"

\* What a step of router p does to the objects.
KeepsHeld(p) ==
    /\ \A q \in Routers \ {p} : lists'[q] = lists[q] /\ rflag'[q] = rflag[q]
    /\ obj' = obj \/ \A q \in Routers \ {p} : pc[q] \notin Holding
    /\ pc'[p] \in Holding =>
        /\ pc'[p] # "give up" /\ Live("shm", id[p]["shm"])'
        /\ Holds(p, "in", {"create out", "serve", "quit in"})'
        /\ Holds(p, "out", {"serve", "quit in", "quit out"})'
        /\ pc'[p] # "init" => lists'[p]
    /\ RemovedBy(p)'

\* What it leaves behind.
KeepsRest(p) ==
    pc'[p] \notin Holding /\ (\A q \in Routers \ {p} : pc[q] \notin Holding) =>
        /\ obj'["shm"] = 0 => Empty' \/ pc'[p] \in {"rm in", "rm out"}
        /\ obj'["in"] = 0 => obj'["out"] = 0 \/ pc'[p] = "rm out"
        /\ ~left' => Empty'

\* A step that keeps both keeps the invariant.
LEMMA OrderlyKept ==
    ASSUME LifeInv, Orderly, NEW p \in Routers, Acts(p), Alone(p), KeepsHeld(p), KeepsRest(p)
    PROVE  OrderlyInv'
<1>0. OrderlyInv /\ ApartInv
  BY DEF LifeInv, Orderly
<1>1. Complete'
  <2>1. ASSUME NEW q \in Routers \ {p}, pc'[q] \in Holding
        PROVE  /\ pc'[q] # "give up" /\ Live("shm", id[q]["shm"])'
               /\ Holds(q, "in", {"create out", "serve", "quit in"})'
               /\ Holds(q, "out", {"serve", "quit in", "quit out"})'
    <3>1. pc'[q] = pc[q] /\ id'[q] = id[q]
      BY DEF Alone
    <3>2. obj' = obj
      BY <2>1, <3>1 DEF KeepsHeld
    <3>. QED BY <1>0, <2>1, <3>1, <3>2 DEF OrderlyInv, Complete, Holds, Live
  <2>. QED BY <2>1 DEF Complete, KeepsHeld
<1>2. ListsMade'
  BY <1>0 DEF OrderlyInv, ListsMade, Alone, KeepsHeld
<1>3. Removed'
  <2>1. ASSUME NEW q \in Routers \ {p} PROVE RemovedBy(q)'
    <3>1. pc'[q] = pc[q] /\ rflag'[q] = rflag[q] /\ may' = may
      BY DEF Alone, KeepsHeld
    <3>2. RemovedBy(q)
      BY <1>0 DEF OrderlyInv, Removed
    <3>3. CASE pc[q] = "off"
      BY <3>1, <3>2, <3>3 DEF RemovedBy
    <3>4. CASE "overlap" \in may
      <4>1. pc[q] \notin {"rm shm", "rm in", "rm out"} /\ ~rflag[q]
        BY <3>2, <3>4 DEF RemovedBy
      <4>. QED BY <3>1, <4>1 DEF RemovedBy
    <3>. QED BY <3>3, <3>4 DEF Acts
  <2>. QED BY <2>1 DEF Removed, KeepsHeld
<1>4. (\A q \in Routers : pc'[q] \notin Holding) =>
         pc'[p] \notin Holding /\ \A q \in Routers \ {p} : pc[q] \notin Holding
  BY DEF Alone
<1>5. Remains'
  BY <1>4 DEF Remains, KeepsRest
<1>6. Cleared'
  BY <1>4 DEF Cleared, KeepsRest
<1>. QED BY <1>1, <1>2, <1>3, <1>5, <1>6 DEF OrderlyInv

\* What a router that does not hold anything finds, when no other one does.
LEMMA Found ==
    ASSUME LifeInv, Orderly, NEW p \in Routers, Acts(p), pc[p] \notin Holding,
           \A q \in Routers \ {p} : pc[q] \notin Holding
    PROVE  /\ obj["shm"] = 0 => Empty \/ pc[p] \in {"rm in", "rm out"}
           /\ obj["in"] = 0 => obj["out"] = 0 \/ pc[p] = "rm out"
           /\ ~left => Empty
<1>0. OrderlyInv
  BY DEF LifeInv
<1>1. ASSUME NEW q \in Routers \ {p} PROVE pc[q] \notin {"rm in", "rm out"}
  BY <1>0 DEF OrderlyInv, Removed, RemovedBy, Acts
<1>2. \A q \in Routers : pc[q] \notin Holding
  OBVIOUS
<1>. QED BY <1>0, <1>1, <1>2 DEF OrderlyInv, Remains, Cleared

\* A router starts.
LEMMA OrderlyStart ==
    ASSUME LifeInv, Orderly, NEW p \in Routers, Start(p), UNCHANGED may PROVE OrderlyInv'
<1>0. OrderlyInv /\ ApartInv /\ Typed
  BY DEF LifeInv, Orderly
<1>1. PICK r \in {FALSE} \cup (IF "-r" \in may THEN {TRUE} ELSE {}) :
        GoTo(p, IF r THEN "rm shm" ELSE "create shm") /\ rflag' = [rflag EXCEPT ![p] = r]
  BY DEF Start
<1>2. /\ pc'[p] = (IF r THEN "rm shm" ELSE "create shm")
      /\ \A q \in Routers \ {p} : pc'[q] = pc[q]
  BY <1>0, <1>1, PcAt
<1>3. pc[p] = "off" /\ UNCHANGED <<id, obj, lists, left, cp, cid>>
  BY DEF Start, kernelVars, clientVars
<1>4. rflag'[p] = r /\ \A q \in Routers \ {p} : rflag'[q] = rflag[q]
  BY <1>0, <1>1, TypedParts DEF Controls
<1>5. Acts(p) /\ Alone(p)
  BY <1>2, <1>3 DEF Acts, Alone, Start, Going
<1>6. pc[p] \notin Holding /\ pc'[p] \notin Holding
  BY <1>2, <1>3 DEF Holding, Making, Closing
<1>7. KeepsHeld(p)
  <2>1. r => "overlap" \notin may
    BY <1>1 DEF Orderly, Apart
  <2>2. RemovedBy(p)'
    BY <1>2, <1>4, <2>1 DEF RemovedBy
  <2>. QED BY <1>3, <1>4, <1>6, <2>2 DEF KeepsHeld
<1>8. KeepsRest(p)
  BY <1>3, <1>5, <1>6, Found DEF KeepsRest, Empty
<1>. QED BY <1>5, <1>7, <1>8, OrderlyKept

\* A router that goes on is alone, or was not started with -r.
LEMMA GoingActs == ASSUME LifeInv, Orderly, NEW p \in Routers, Going(p) PROVE Acts(p)
BY Others DEF Acts, Orderly

\* What -r removes: the memory, and then the queues.
LEMMA OrderlyRemove ==
    ASSUME LifeInv, Orderly, NEW p \in Routers, UNCHANGED may,
           rm_shm(p) \/ remove_msg(p, "rm in", "rm out", "create shm")
    PROVE  OrderlyInv'
<1>0. OrderlyInv /\ ApartInv /\ Typed /\ "shm" \in Kinds /\ "in" \in Kinds /\ "out" \in Kinds
  BY DEF LifeInv, Orderly, Kinds
<1>a. obj \in [Kinds -> 0 .. made] /\ RemovedBy(p)
  BY <1>0, TypedParts DEF Kernel, OrderlyInv, Removed
<1>1. pc[p] \in {"rm shm", "rm in", "rm out"} /\ UNCHANGED <<rflag, lists, left, cp, cid>>
  BY DEF rm_shm, remove_msg, remove_queue, clientVars
<1>2. Going(p) /\ pc[p] \notin Holding /\ "overlap" \notin may /\ rflag[p]
  BY <1>1, <1>a DEF Going, Holding, Making, Closing, RemovedBy
<1>3. Acts(p) /\ \A q \in Routers \ {p} : pc[q] \notin Holding
  BY <1>2, GoingActs, Others DEF Holding, Making, Closing, Orderly
<1>4. \A k \in Kinds : Target(p, k) = obj[k]
  BY <1>0, <1>1, NoIdsAre DEF ApartInv, NoIdBefore, Before, Target
<1>5. ASSUME NEW k \in Kinds, NEW l \in {"rm in", "rm out", "create shm"}, GoTo(p, l),
             \/ Live(k, Target(p, k)) /\ Remove(p, k)
             \/ obj[k] = 0 /\ UNCHANGED <<obj, id>>,
             l = "rm in" => k = "shm" /\ pc[p] = "rm shm",
             l = "rm out" => k = "in" /\ pc[p] = "rm in",
             l = "create shm" => (\A j \in Kinds \ {k} : obj[j] = 0)
      PROVE  OrderlyInv'
  <2>1. pc'[p] = l /\ \A q \in Routers \ {p} : pc'[q] = pc[q]
    BY <1>0, <1>5, PcAt
  <2>2. \A q \in Routers \ {p} : id'[q] = id[q]
    <3>1. CASE Remove(p, k)
      <4>1. id' = [id EXCEPT ![p][k] = 0]
        BY <3>1 DEF Remove
      <4>2. IdIs(p, k, 0)
        BY <1>0, <4>1, IdAt
      <4>. QED BY <4>2 DEF IdIs
    <3>. QED BY <1>5, <3>1
  <2>3. Alone(p)
    BY <1>1, <2>1, <2>2 DEF Alone
  <2>4. obj'[k] = 0 /\ \A j \in Kinds \ {k} : obj'[j] = obj[j]
    BY <1>5, <1>a DEF Remove
  <2>5. pc'[p] \notin Holding
    BY <2>1 DEF Holding, Making, Closing
  <2>6. KeepsHeld(p)
    <3>1. RemovedBy(p)'
      BY <1>0, <1>1, <1>2, <1>5, <1>a, <2>1, <2>4 DEF RemovedBy, Empty
    <3>. QED BY <1>1, <1>3, <2>5, <3>1 DEF KeepsHeld
  <2>7. Empty => Empty'
    <3>1. ASSUME Empty, NEW j \in Kinds PROVE obj'[j] = 0
      <4>1. CASE j = k
        BY <2>4, <4>1
      <4>2. CASE j # k
        <5>1. obj[j] = 0
          BY <3>1 DEF Empty
        <5>2. obj'[j] = obj[j]
          BY <2>4, <4>2
        <5>. QED BY <5>1, <5>2
      <4>. QED BY <4>1, <4>2
    <3>. QED BY <3>1 DEF Empty
  <2>8. l = "create shm" => Empty'
    <3>1. ASSUME l = "create shm", NEW j \in Kinds PROVE obj'[j] = 0
      BY <1>5, <2>4, <3>1
    <3>. QED BY <3>1 DEF Empty
  <2>9. /\ obj["in"] = 0 => obj["out"] = 0 \/ pc[p] = "rm out"
        /\ ~left => Empty
    BY <1>2, <1>3, Found
  <2>10. l = "rm in" => obj'["in"] = obj["in"] /\ obj'["out"] = obj["out"] /\ pc[p] # "rm out"
    BY <1>0, <1>5, <2>4
  <2>11. Empty' => obj'["out"] = 0
    BY <1>0 DEF Empty
  <2>12. KeepsRest(p)
    BY <1>1, <2>1, <2>7, <2>8, <2>9, <2>10, <2>11 DEF KeepsRest
  <2>. QED BY <1>3, <2>3, <2>6, <2>12, OrderlyKept
<1>6. CASE rm_shm(p)
  BY <1>0, <1>4, <1>5, <1>6 DEF rm_shm, kernelVars, Live
<1>7. CASE remove_queue(p, "in", "rm in", "rm out", "create shm")
  <2>1. pc[p] = "rm in" /\ obj["shm"] = 0
    BY <1>7, <1>a DEF remove_queue, RemovedBy
  <2>2. obj["in"] = 0 => \A j \in Kinds \ {"in"} : obj[j] = 0
    BY <1>2, <1>3, <2>1, Found DEF Kinds
  <2>. QED BY <1>0, <1>4, <1>5, <1>7, <2>1, <2>2 DEF remove_queue, kernelVars, Live
<1>8. CASE remove_queue(p, "out", "rm out", "create shm", "create shm")
  <2>1. \A j \in Kinds \ {"out"} : obj[j] = 0
    BY <1>8, <1>a DEF remove_queue, RemovedBy, Kinds
  <2>. QED BY <1>0, <1>4, <1>5, <1>8, <2>1 DEF remove_queue, kernelVars, Live
<1>. QED BY <1>6, <1>7, <1>8 DEF remove_msg

\* A router makes its memory when nothing is there, or gives up.
LEMMA OrderlyCreateShm ==
    ASSUME LifeInv, Orderly, NEW p \in Routers, create_shm(p), UNCHANGED may PROVE OrderlyInv'
<1>0. OrderlyInv /\ ApartInv /\ Typed /\ "shm" \in Kinds /\ "in" \in Kinds /\ "out" \in Kinds
  BY DEF LifeInv, Orderly, Kinds
<1>a. obj \in [Kinds -> 0 .. made] /\ made \in Nat /\ RemovedBy(p)
  BY <1>0, TypedParts DEF Kernel, OrderlyInv, Removed
<1>1. pc[p] = "create shm" /\ UNCHANGED <<rflag, cp, cid>> /\ left' = (left /\ ~rflag[p])
  BY DEF create_shm, clientVars
<1>2. Going(p) /\ pc[p] \notin Holding
  BY <1>1 DEF Going, Holding, Making, Closing
<1>3. Acts(p)
  BY <1>2, GoingActs
<1>4. CASE Make(p, "shm") /\ GoTo(p, "init") /\ UNCHANGED lists
  <2>1. pc'[p] = "init" /\ \A q \in Routers \ {p} : pc'[q] = pc[q]
    BY <1>0, <1>4, PcAt
  <2>2. obj["shm"] = 0 /\ id' = [id EXCEPT ![p]["shm"] = made + 1]
    BY <1>4 DEF Make
  <2>3. IdIs(p, "shm", made + 1) /\ made + 1 # 0
    <3>1. made + 1 \in Nat /\ made + 1 # 0
      BY <1>a
    <3>. QED BY <1>0, <2>2, <3>1, IdAt
  <2>4. \A q \in Routers \ {p} : pc[q] \notin Holding
    BY <1>2, <2>2, Others DEF Orderly
  <2>5. Empty
    BY <1>1, <1>2, <1>3, <2>2, <2>4, Found
  <2>6. obj'["shm"] = made + 1 /\ obj'["in"] = 0 /\ obj'["out"] = 0
    BY <1>0, <1>4, <1>a, <2>5 DEF Make, Empty
  <2>7. Alone(p)
    BY <1>1, <2>1, <2>3 DEF Alone, IdIs
  <2>8. RemovedBy(p)'
    BY <1>1, <1>a, <2>1 DEF RemovedBy
  <2>9. KeepsHeld(p)
    BY <1>1, <1>4, <2>1, <2>3, <2>4, <2>6, <2>8 DEF KeepsHeld, Live, Holds, IdIs
  <2>10. KeepsRest(p)
    BY <2>1 DEF KeepsRest, Holding, Making
  <2>. QED BY <1>3, <2>7, <2>9, <2>10, OrderlyKept
<1>5. CASE obj["shm"] # 0 /\ Exit(p) /\ UNCHANGED kernelVars
  <2>1. /\ pc'[p] = "off" /\ id'[p] = NoIds
        /\ \A q \in Routers \ {p} : pc'[q] = pc[q] /\ id'[q] = id[q]
    BY <1>0, <1>5, IdReset
  <2>2. Alone(p)
    BY <1>1, <2>1 DEF Alone
  <2>3. obj' = obj /\ \A q \in Routers \ {p} : lists'[q] = lists[q]
    BY <1>0, <1>5, TypedParts DEF kernelVars, Exit, Controls
  <2>4. ~rflag[p] /\ (left' <=> left)
    BY <1>0, <1>1, <1>5, <1>a DEF RemovedBy, Empty
  <2>5. pc'[p] \notin Holding
    BY <2>1 DEF Holding, Making, Closing
  <2>6. KeepsHeld(p)
    <3>1. RemovedBy(p)'
      BY <1>1, <2>1, <2>4 DEF RemovedBy
    <3>. QED BY <1>1, <2>3, <2>5, <3>1 DEF KeepsHeld
  <2>7. KeepsRest(p)
    BY <1>1, <1>2, <1>3, <2>3, <2>4, Found DEF KeepsRest, Empty
  <2>. QED BY <1>3, <2>2, <2>6, <2>7, OrderlyKept
<1>. QED BY <1>4, <1>5 DEF create_shm

\* A step of a router that goes on holding what it has made.
LEMMA OrderlyHolding ==
    ASSUME LifeInv, Orderly, NEW p \in Routers, pc[p] \in Holding, pc'[p] \in Holding, Alone(p),
           UNCHANGED rflag, \A q \in Routers \ {p} : lists'[q] = lists[q],
           lists'[p], pc'[p] # "give up", Live("shm", id[p]["shm"])',
           Holds(p, "in", {"create out", "serve", "quit in"})',
           Holds(p, "out", {"serve", "quit in", "quit out"})'
    PROVE  OrderlyInv'
<1>0. OrderlyInv /\ ApartInv
  BY DEF LifeInv, Orderly
<1>1. Going(p) /\ pc'[p] \notin {"rm shm", "rm in", "rm out", "create shm"}
  BY DEF Going, Holding, Making, Closing
<1>2. Acts(p)
  BY <1>1, GoingActs
<1>3. RemovedBy(p)'
  BY <1>0, <1>1 DEF OrderlyInv, Removed, RemovedBy, Alone
<1>4. \A q \in Routers \ {p} : pc[q] \notin Holding
  BY <1>0 DEF ApartInv, OneHolds
<1>5. KeepsHeld(p)
  BY <1>3, <1>4 DEF KeepsHeld
<1>6. KeepsRest(p)
  BY DEF KeepsRest
<1>. QED BY <1>2, <1>5, <1>6, OrderlyKept

\* It makes its lists.
LEMMA OrderlyInitShm ==
    ASSUME LifeInv, Orderly, NEW p \in Routers, init_shm(p), UNCHANGED may PROVE OrderlyInv'
<1>0. OrderlyInv /\ Typed
  BY DEF LifeInv
<1>1. pc'[p] = "create in" /\ \A q \in Routers \ {p} : pc'[q] = pc[q]
  BY <1>0, PcAt DEF init_shm
<1>2. pc[p] = "init" /\ UNCHANGED <<id, obj, rflag, cp, cid>>
  BY DEF init_shm, kernelVars, clientVars
<1>3. lists'[p] /\ \A q \in Routers \ {p} : lists'[q] = lists[q]
  BY <1>0, TypedParts DEF init_shm, Controls
<1>4. Alone(p) /\ pc[p] \in Holding /\ pc'[p] \in Holding /\ pc'[p] # "give up"
  BY <1>1, <1>2 DEF Alone, Holding, Making
<1>5. Live("shm", id[p]["shm"]) /\ obj["in"] = 0 /\ obj["out"] = 0
  BY <1>0, <1>2, <1>4 DEF OrderlyInv, Complete, Holds
<1>6. /\ Live("shm", id[p]["shm"])'
      /\ Holds(p, "in", {"create out", "serve", "quit in"})'
      /\ Holds(p, "out", {"serve", "quit in", "quit out"})'
  BY <1>1, <1>2, <1>5 DEF Live, Holds
<1>. QED BY <1>2, <1>3, <1>4, <1>6, OrderlyHolding

\* It makes its queues: none of them is there.
LEMMA OrderlyCreateMsg ==
    ASSUME LifeInv, Orderly, NEW p \in Routers, create_msg(p), UNCHANGED may PROVE OrderlyInv'
<1>0. OrderlyInv /\ Typed /\ "shm" \in Kinds /\ "in" \in Kinds /\ "out" \in Kinds
  BY DEF LifeInv, Kinds
<1>a. obj \in [Kinds -> 0 .. made] /\ made \in Nat /\ made + 1 \in Nat /\ made + 1 # 0
  <2>1. obj \in [Kinds -> 0 .. made] /\ made \in Nat
    BY <1>0, TypedParts DEF Kernel
  <2>. QED BY <2>1
<1>1. pc[p] \in {"create in", "create out"} /\ UNCHANGED <<rflag, lists, cp, cid>>
  BY DEF create_msg, clientVars
<1>2. pc[p] \in Holding /\ lists[p]
  <2>1. pc[p] \in Holding
    BY <1>1 DEF Holding, Making
  <2>. QED BY <1>0, <1>1, <2>1 DEF OrderlyInv, ListsMade
<1>3. /\ Live("shm", id[p]["shm"])
      /\ Holds(p, "in", {"create out", "serve", "quit in"})
      /\ Holds(p, "out", {"serve", "quit in", "quit out"})
  BY <1>0, <1>2 DEF OrderlyInv, Complete
<1>4. CASE pc[p] = "create in" /\ Make(p, "in") /\ GoTo(p, "create out")
  <2>1. pc'[p] = "create out" /\ \A q \in Routers \ {p} : pc'[q] = pc[q]
    BY <1>0, <1>4, PcAt
  <2>2. id' = [id EXCEPT ![p]["in"] = made + 1] /\ obj' = [obj EXCEPT !["in"] = made + 1]
    BY <1>4 DEF Make
  <2>3. IdIs(p, "in", made + 1)
    BY <1>0, <1>a, <2>2, IdAt
  <2>4. obj'["in"] = made + 1 /\ obj'["shm"] = obj["shm"] /\ obj'["out"] = obj["out"]
    BY <1>0, <1>a, <2>2
  <2>5. id'[p]["in"] = made + 1 /\ id'[p]["shm"] = id[p]["shm"]
    BY <1>0, <2>3 DEF IdIs
  <2>6. Alone(p) /\ pc'[p] \in Holding
    BY <1>1, <2>1, <2>3 DEF Alone, IdIs, Holding, Making
  <2>7. /\ Live("shm", id[p]["shm"])'
        /\ Holds(p, "in", {"create out", "serve", "quit in"})'
        /\ Holds(p, "out", {"serve", "quit in", "quit out"})'
    BY <1>3, <1>4, <1>a, <2>1, <2>4, <2>5 DEF Live, Holds
  <2>. QED BY <1>1, <1>2, <2>1, <2>6, <2>7, OrderlyHolding
<1>5. CASE pc[p] = "create out" /\ Make(p, "out") /\ GoTo(p, "serve")
  <2>1. pc'[p] = "serve" /\ \A q \in Routers \ {p} : pc'[q] = pc[q]
    BY <1>0, <1>5, PcAt
  <2>2. id' = [id EXCEPT ![p]["out"] = made + 1] /\ obj' = [obj EXCEPT !["out"] = made + 1]
    BY <1>5 DEF Make
  <2>3. IdIs(p, "out", made + 1)
    BY <1>0, <1>a, <2>2, IdAt
  <2>4. obj'["out"] = made + 1 /\ obj'["shm"] = obj["shm"] /\ obj'["in"] = obj["in"]
    BY <1>0, <1>a, <2>2
  <2>5. id'[p]["out"] = made + 1 /\ id'[p]["shm"] = id[p]["shm"] /\ id'[p]["in"] = id[p]["in"]
    BY <1>0, <2>3 DEF IdIs
  <2>6. Alone(p) /\ pc'[p] \in Holding
    BY <1>1, <2>1, <2>3 DEF Alone, IdIs, Holding, Making
  <2>7. /\ Live("shm", id[p]["shm"])'
        /\ Holds(p, "in", {"create out", "serve", "quit in"})'
        /\ Holds(p, "out", {"serve", "quit in", "quit out"})'
    BY <1>3, <1>5, <1>a, <2>1, <2>4, <2>5 DEF Live, Holds
  <2>. QED BY <1>1, <1>2, <2>1, <2>6, <2>7, OrderlyHolding
<1>6. ~(pc[p] = "create in" /\ Exists(p, "in")) /\ ~(pc[p] = "create out" /\ Exists(p, "out"))
  BY <1>3 DEF Exists, Holds
<1>. QED BY <1>4, <1>5, <1>6 DEF create_msg

\* It answers a client, or begins to end; no signal interrupts it.
LEMMA OrderlyServe ==
    ASSUME LifeInv, Orderly, NEW p \in Routers, HandleConnect(p) \/ Terminate(p) \/ Signal(p),
           UNCHANGED may
    PROVE  OrderlyInv'
<1>0. OrderlyInv /\ Typed
  BY DEF LifeInv
<1>1. ~Signal(p)
  BY DEF Signal, Orderly
<1>2. pc[p] = "serve" /\ UNCHANGED <<id, obj, rflag, lists, cp, cid>>
  BY <1>1 DEF HandleConnect, Terminate, kernelVars, routerVars, clientVars
<1>3. pc'[p] \in {"serve", "quit in"} /\ \A q \in Routers \ {p} : pc'[q] = pc[q]
  <2>1. CASE HandleConnect(p)
    BY <1>2, <2>1 DEF HandleConnect, routerVars
  <2>2. CASE Terminate(p)
    BY <1>0, <2>2, PcAt DEF Terminate
  <2>. QED BY <1>1, <2>1, <2>2
<1>4. Alone(p) /\ pc[p] \in Holding /\ pc'[p] \in Holding /\ pc'[p] # "give up"
  BY <1>2, <1>3 DEF Alone, Holding, Making, Closing
<1>5. /\ Live("shm", id[p]["shm"]) /\ Live("in", id[p]["in"]) /\ Live("out", id[p]["out"])
      /\ lists[p]
  BY <1>0, <1>2, <1>4 DEF OrderlyInv, Complete, Holds, ListsMade
<1>6. /\ Live("shm", id[p]["shm"])'
      /\ Holds(p, "in", {"create out", "serve", "quit in"})'
      /\ Holds(p, "out", {"serve", "quit in", "quit out"})'
  BY <1>2, <1>3, <1>5 DEF Live, Holds
<1>. QED BY <1>2, <1>4, <1>5, <1>6, OrderlyHolding

\* It removes its queues, one after the other.
LEMMA OrderlyQuitQueue ==
    ASSUME LifeInv, Orderly, NEW p \in Routers, UNCHANGED may,
           remove_msg(p, "quit in", "quit out", "quit shm")
    PROVE  OrderlyInv'
<1>0. OrderlyInv /\ Typed /\ "shm" \in Kinds /\ "in" \in Kinds /\ "out" \in Kinds
  BY DEF LifeInv, Kinds
<1>a. obj \in [Kinds -> 0 .. made]
  BY <1>0, TypedParts DEF Kernel
<1>1. pc[p] \in {"quit in", "quit out"} /\ UNCHANGED <<rflag, lists, cp, cid>>
  BY DEF remove_msg, remove_queue, clientVars
<1>2. pc[p] \in Holding /\ lists[p]
  <2>1. pc[p] \in Holding
    BY <1>1 DEF Holding, Closing
  <2>. QED BY <1>0, <1>1, <2>1 DEF OrderlyInv, ListsMade
<1>3. /\ Live("shm", id[p]["shm"])
      /\ Holds(p, "in", {"create out", "serve", "quit in"})
      /\ Holds(p, "out", {"serve", "quit in", "quit out"})
  BY <1>0, <1>2 DEF OrderlyInv, Complete
<1>4. CASE remove_queue(p, "in", "quit in", "quit out", "quit shm")
  <2>0. pc[p] = "quit in" /\ Live("in", Target(p, "in"))
    BY <1>3, <1>4 DEF remove_queue, Holds, Live, Target
  <2>a. Remove(p, "in") /\ GoTo(p, "quit out")
    BY <1>4, <2>0 DEF remove_queue
  <2>1. pc'[p] = "quit out" /\ \A q \in Routers \ {p} : pc'[q] = pc[q]
    BY <1>0, <2>a, PcAt
  <2>2. id' = [id EXCEPT ![p]["in"] = 0] /\ obj' = [obj EXCEPT !["in"] = 0]
    BY <2>a DEF Remove
  <2>3. IdIs(p, "in", 0)
    BY <1>0, <2>2, IdAt
  <2>4. obj'["in"] = 0 /\ obj'["shm"] = obj["shm"] /\ obj'["out"] = obj["out"]
    BY <1>0, <1>a, <2>2
  <2>5. id'[p]["out"] = id[p]["out"] /\ id'[p]["shm"] = id[p]["shm"]
    BY <1>0, <2>3 DEF IdIs
  <2>6. Alone(p) /\ pc'[p] \in Holding
    BY <1>1, <2>1, <2>3 DEF Alone, IdIs, Holding, Closing
  <2>7. /\ Live("shm", id[p]["shm"])'
        /\ Holds(p, "in", {"create out", "serve", "quit in"})'
        /\ Holds(p, "out", {"serve", "quit in", "quit out"})'
    BY <1>3, <2>0, <2>1, <2>4, <2>5 DEF Live, Holds
  <2>. QED BY <1>1, <1>2, <2>1, <2>6, <2>7, OrderlyHolding
<1>5. CASE remove_queue(p, "out", "quit out", "quit shm", "quit shm")
  <2>0. pc[p] = "quit out" /\ Live("out", Target(p, "out"))
    BY <1>3, <1>5 DEF remove_queue, Holds, Live, Target
  <2>a. Remove(p, "out") /\ GoTo(p, "quit shm")
    BY <1>5, <2>0 DEF remove_queue
  <2>1. pc'[p] = "quit shm" /\ \A q \in Routers \ {p} : pc'[q] = pc[q]
    BY <1>0, <2>a, PcAt
  <2>2. id' = [id EXCEPT ![p]["out"] = 0] /\ obj' = [obj EXCEPT !["out"] = 0]
    BY <2>a DEF Remove
  <2>3. IdIs(p, "out", 0)
    BY <1>0, <2>2, IdAt
  <2>4. obj'["out"] = 0 /\ obj'["shm"] = obj["shm"] /\ obj'["in"] = obj["in"]
    BY <1>0, <1>a, <2>2
  <2>5. id'[p]["shm"] = id[p]["shm"]
    BY <1>0, <2>3 DEF IdIs
  <2>6. Alone(p) /\ pc'[p] \in Holding
    BY <1>1, <2>1, <2>3 DEF Alone, IdIs, Holding, Closing
  <2>7. /\ Live("shm", id[p]["shm"])'
        /\ Holds(p, "in", {"create out", "serve", "quit in"})'
        /\ Holds(p, "out", {"serve", "quit in", "quit out"})'
    BY <1>3, <2>0, <2>1, <2>4, <2>5 DEF Live, Holds
  <2>. QED BY <1>1, <1>2, <2>1, <2>6, <2>7, OrderlyHolding
<1>. QED BY <1>4, <1>5 DEF remove_msg

\* It removes its memory and ends: nothing is left.  Or it is killed.
LEMMA OrderlyEnd ==
    ASSUME LifeInv, Orderly, NEW p \in Routers, quit_shm(p) \/ Kill(p), UNCHANGED may
    PROVE  OrderlyInv'
<1>0. OrderlyInv /\ ApartInv /\ Typed /\ "shm" \in Kinds /\ "in" \in Kinds /\ "out" \in Kinds
  BY DEF LifeInv, Orderly, Kinds
<1>a. obj \in [Kinds -> 0 .. made] /\ RemovedBy(p)
  BY <1>0, TypedParts DEF Kernel, OrderlyInv, Removed
<1>1. /\ pc'[p] = "off" /\ id'[p] = NoIds
      /\ \A q \in Routers \ {p} : pc'[q] = pc[q] /\ id'[q] = id[q]
  BY <1>0, IdReset DEF quit_shm, Kill
<1>2. UNCHANGED <<cp, cid, rflag>> /\ \A q \in Routers \ {p} : lists'[q] = lists[q]
  BY <1>0, TypedParts DEF quit_shm, Kill, clientVars, Exit, Controls
<1>3. Alone(p) /\ Going(p)
  BY <1>1, <1>2 DEF Alone, quit_shm, Kill, Going
<1>4. Acts(p) /\ pc'[p] \notin Holding /\ RemovedBy(p)'
  BY <1>1, <1>2, <1>3, <1>a, GoingActs DEF Holding, Making, Closing, RemovedBy, Alone
<1>5. pc[p] \in Holding =>
        /\ pc[p] # "give up" /\ Live("shm", id[p]["shm"])
        /\ Holds(p, "in", {"create out", "serve", "quit in"})
        /\ Holds(p, "out", {"serve", "quit in", "quit out"})
        /\ pc[p] # "init" => lists[p]
        /\ \A q \in Routers \ {p} : pc[q] \notin Holding
  BY <1>0 DEF OrderlyInv, Complete, ListsMade, ApartInv, OneHolds
<1>6. CASE quit_shm(p)
  <2>1. pc[p] = "quit shm" /\ pc[p] \in Holding
    BY <1>5, <1>6 DEF quit_shm, Holding, Closing
  <2>2. Live("shm", Target(p, "shm")) /\ lists[p] /\ obj["in"] = 0 /\ obj["out"] = 0
    BY <1>5, <2>1 DEF Live, Target, Holds
  <2>3. obj' = [obj EXCEPT !["shm"] = 0]
    BY <1>6, <2>2 DEF quit_shm
  <2>4. Empty'
    BY <1>0, <1>a, <2>2, <2>3 DEF Empty, Kinds
  <2>5. KeepsHeld(p)
    BY <1>2, <1>4, <1>5, <2>1 DEF KeepsHeld
  <2>6. KeepsRest(p)
    BY <1>0, <2>4 DEF KeepsRest, Empty
  <2>. QED BY <1>3, <1>4, <2>5, <2>6, OrderlyKept
<1>7. CASE Kill(p)
  <2>1. obj' = obj /\ left' /\ pc[p] \notin Removing
    BY <1>7 DEF Kill, kernelVars, Orderly
  <2>2. KeepsHeld(p)
    BY <1>2, <1>4, <2>1 DEF KeepsHeld
  <2>3. KeepsRest(p)
    <3>1. CASE pc[p] \in Holding
      BY <1>5, <2>1, <3>1 DEF KeepsRest, Live, Holds, Removing
    <3>2. CASE pc[p] \notin Holding
      BY <1>4, <2>1, <3>2, Found DEF KeepsRest, Empty, Removing
    <3>. QED BY <3>1, <3>2
  <2>. QED BY <1>3, <1>4, <2>2, <2>3, OrderlyKept
<1>. QED BY <1>6, <1>7

\* Every step keeps routers orderly.
LEMMA OrderlyStep == ASSUME LifeInv, Orderly, [LifeNext]_lifeVars PROVE OrderlyInv'
<1>1. ASSUME UNCHANGED <<may, obj, pc, id, rflag, lists, left>> PROVE OrderlyInv'
  BY <1>1 DEF LifeInv, OrderlyInv, Complete, Live, Holds, ListsMade, Remains, Empty, Removed, RemovedBy,
     Cleared
<1>2. ASSUME NEW c \in Clients, router_connect(c) \/ Leave(c), UNCHANGED may PROVE OrderlyInv'
  BY <1>1, <1>2
     DEF router_connect, GetQueues, SendConnect, GetReply, Attach, Leave, kernelVars, routerVars
<1>3. CASE UNCHANGED lifeVars
  BY <1>1, <1>3 DEF lifeVars, kernelVars, routerVars
<1>. QED BY <1>2, <1>3, OrderlyStart, OrderlyRemove, OrderlyCreateShm, OrderlyInitShm, OrderlyCreateMsg,
     OrderlyServe, OrderlyQuitQueue, OrderlyEnd DEF LifeNext, main

-----------------------------------------------------------------------------
(* The results *)

\* In the beginning there is nothing.
LEMMA LifeInvInit == LifeInit => LifeInv
<1>. SUFFICES ASSUME LifeInit PROVE LifeInv
  OBVIOUS
<1>1. NoIds \in [Kinds -> 0 .. 0] /\ "in" \in Kinds /\ "out" \in Kinds /\ "shm" \in Kinds
  BY DEF NoIds, Kinds
<1>2. Typed
  <2>1. id \in [Routers -> [Kinds -> 0 .. made]] /\ cid \in [Clients -> [Kinds -> 0 .. made]]
    BY <1>1 DEF LifeInit
  <2>. QED BY <1>1, <2>1 DEF LifeInit, Typed, LifeTypeOK
<1>3. ApartInv
  BY DEF LifeInit, ApartInv, NoIdBefore, OneHolds, OneGoes, Going, MemoryHeld, Plain, HasQueue, Paired,
     Holding, Making, Closing
<1>4. Empty
  BY NoIdsAre DEF LifeInit, Empty
<1>5. OrderlyInv
  BY <1>1, <1>4 DEF LifeInit, OrderlyInv, Complete, ListsMade, Remains, Removed, RemovedBy, Cleared, Empty,
     Holding, Making, Closing
<1>. QED BY <1>2, <1>3, <1>5 DEF LifeInv

\* The invariant says what is wanted.
LEMMA LifeInvRight == LifeInv => LifeRight
<1>. SUFFICES ASSUME LifeInv PROVE LifeRight
  OBVIOUS
<1>1. Apart => SameRouter /\ NotRobbed
  BY DEF LifeInv, ApartInv, Paired, SameRouter, NotRobbed
<1>2. ASSUME Orderly PROVE Equipped
  <2>1. ASSUME NEW p \in Routers, pc[p] = "serve", NEW k \in Kinds PROVE Live(k, id[p][k])
    <3>1. pc[p] \in Holding
      BY <2>1 DEF Holding, Making
    <3>2. Live("shm", id[p]["shm"]) /\ Live("in", id[p]["in"]) /\ Live("out", id[p]["out"])
      BY <1>2, <2>1, <3>1 DEF LifeInv, OrderlyInv, Complete, Holds
    <3>. QED BY <3>2 DEF Kinds
  <2>. QED BY <2>1 DEF Equipped
<1>3. ASSUME Orderly PROVE NothingLeft
  <2>1. ASSUME \A p \in Routers : ~Going(p), ~left PROVE obj = NoIds
    <3>1. \A p \in Routers : pc[p] \notin Holding
      BY <2>1 DEF Going, Holding, Making, Closing
    <3>2. Empty
      BY <1>3, <2>1, <3>1 DEF LifeInv, OrderlyInv, Cleared
    <3>3. obj \in [Kinds -> 0 .. made]
      BY DEF LifeInv, Typed, LifeTypeOK
    <3>. QED BY <3>2, <3>3, NoIdsAre DEF Empty
  <2>. QED BY <2>1 DEF NothingLeft
<1>. QED BY <1>1, <1>2, <1>3 DEF LifeRight

\* The invariant is inductive.
LEMMA LifeInvHolds == LifeSpec => []LifeInv
<1>1. LifeInv /\ [LifeNext]_lifeVars => LifeInv'
  <2>. SUFFICES ASSUME LifeInv, [LifeNext]_lifeVars PROVE LifeInv'
    OBVIOUS
  <2>1. may' = may
    BY DEF LifeNext, lifeVars
  <2>2. (Apart' <=> Apart) /\ (Orderly' <=> Orderly)
    BY <2>1 DEF Apart, Orderly
  <2>3. Typed'
    BY TypedStep DEF LifeInv
  <2>. QED BY <2>2, <2>3, ApartStep, OrderlyStep DEF LifeInv
<1>. QED BY <1>1, LifeInvInit, PTL DEF LifeSpec

\* The ids of routers and clients are those of objects that were made (create_shm, create_msg,
\* router_connect).
THEOREM RouterLifeTyping == LifeSpec => []LifeTypeOK
<1>1. LifeInv => LifeTypeOK
  BY DEF LifeInv, Typed
<1>. QED BY <1>1, LifeInvHolds, PTL

\* Routers that follow each other, or are started over each other without -r, never get mixed
\* up, and as long as none is ended while it sets up or removes its objects, these are complete
\* while it serves and gone behind it: main, remove_msg, remove_shm and router_connect, for any
\* number of routers, clients, starts and connections.
THEOREM RouterLifeRight == LifeSpec => []LifeRight
BY LifeInvRight, LifeInvHolds, PTL
=============================================================================
