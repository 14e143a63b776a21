----------------------------- MODULE RouterLife -----------------------------
(***************************************************************************)
(* The life of a router (router.c).  A router makes a shared memory        *)
(* segment and two message queues in the kernel, serves, and removes them  *)
(* when it ends.  They outlive a router that is killed, and the next one   *)
(* does not start over them, unless it is told to remove them (-r).        *)
(* Clients find the three objects by their keys, one after the other       *)
(* (router_connect).  What a router does while it serves is in Router;     *)
(* here it answers connections.                                            *)
(***************************************************************************)
EXTENDS Naturals

CONSTANTS
    Routers,     \* processes that run router
    Clients,     \* processes that connect to it
    MaxStarts,   \* how often routers are started in all
    MaxCalls,    \* how often clients connect in all
    Scenarios    \* sets of EventKinds: what may happen in the same behaviour

EventKinds == {"-r", "overlap", "kill", "kill in removal", "signal at start", "second signal"}

VARIABLES
    may,     \* the scenario
    obj,     \* kernel: the object at each key, 0 if there is none
    made,    \* number of objects made; they are numbered
    msgs,    \* messages <<queue, client>> in the queues
    pc, id,  \* routers: place in main, and shm_id, msg_id_in, msg_id_out (0 for -1)
    rflag,   \* routers: started with -r
    lists,   \* routers: init_shm has been called
    starts, calls,
    cp, cid, \* clients: place in router_connect, and the descriptor's shm_id and queues
    left,    \* history: a router was killed, and nobody has removed its objects since
    robbed   \* history: a running router lost an object to one that was not told to remove it

kernelVars == <<obj, made, msgs>>
routerVars == <<pc, id, rflag, lists, starts, left, robbed>>
clientVars == <<cp, cid, calls>>
lifeVars == <<may, kernelVars, routerVars, clientVars>>

Kinds == {"shm", "in", "out"}
NoIds == [k \in Kinds |-> 0]

Removing == {"rm in", "rm out", "quit out"}
Starting == {"rm shm", "rm in", "rm out", "create shm", "init", "create in", "create out"}

Live(k, i) == i # 0 /\ obj[k] = i
Going(p) == pc[p] # "off"

LifeInit ==
    /\ may \in Scenarios
    /\ obj = NoIds /\ made = 0 /\ msgs = {}
    /\ pc = [p \in Routers |-> "off"] /\ id = [p \in Routers |-> NoIds]
    /\ rflag = [p \in Routers |-> FALSE] /\ lists = [p \in Routers |-> FALSE]
    /\ starts = 0 /\ calls = 0 /\ left = FALSE /\ robbed = FALSE
    /\ cp = [c \in Clients |-> "off"] /\ cid = [c \in Clients |-> NoIds]

-----------------------------------------------------------------------------
(* The kernel *)

\* msgget or shmget with IPC_CREAT|IPC_EXCL, of a key that is free.
Make(p, k) ==
    /\ obj[k] = 0
    /\ made' = made + 1
    /\ obj' = [obj EXCEPT ![k] = made + 1]
    /\ id' = [id EXCEPT ![p][k] = made + 1]
    /\ UNCHANGED msgs

\* The same of a key that is taken: EEXIST, and the id is -1.
Exists(p, k) == obj[k] # 0 /\ id' = [id EXCEPT ![p][k] = 0] /\ UNCHANGED kernelVars

\* The object a removal is about: the one with the id the router has, or with id -1 the one
\* that is found by the key.
Target(p, k) == IF id[p][k] # 0 THEN id[p][k] ELSE obj[k]

\* IPC_RMID: the messages of a queue go with it.
Remove(p, k) ==
    /\ obj' = [obj EXCEPT ![k] = 0]
    /\ msgs' = {m \in msgs : m[1] # Target(p, k)}
    /\ id' = [id EXCEPT ![p][k] = 0]
    /\ robbed' = (robbed \/ (~rflag[p] /\ \E q \in Routers \ {p} : Going(q) /\ id[q][k] = Target(p, k)))
    /\ UNCHANGED made

-----------------------------------------------------------------------------
(* The router *)

GoTo(p, l) == pc' = [pc EXCEPT ![p] = l]

Exit(p) ==
    /\ GoTo(p, "off")
    /\ id' = [id EXCEPT ![p] = NoIds] /\ lists' = [lists EXCEPT ![p] = FALSE]

\* main up to the removal of old objects.
Start(p) ==
    /\ pc[p] = "off" /\ starts < MaxStarts
    /\ "overlap" \in may \/ \A q \in Routers : ~Going(q)
    /\ \E r \in {FALSE} \cup (IF "-r" \in may THEN {TRUE} ELSE {}) :
        /\ rflag' = [rflag EXCEPT ![p] = r]
        /\ GoTo(p, IF r THEN "rm shm" ELSE "create shm")
    /\ starts' = starts + 1
    /\ UNCHANGED <<kernelVars, id, lists, left, robbed, clientVars>>

\* One half of remove_msg, at l: when the queue cannot be removed the rest is left out.
remove_queue(p, k, l, next, rest) ==
    /\ pc[p] = l
    /\ IF Live(k, Target(p, k))
       THEN Remove(p, k) /\ GoTo(p, next)
       ELSE GoTo(p, rest) /\ UNCHANGED <<kernelVars, id, robbed>>
    /\ UNCHANGED <<rflag, lists, starts, clientVars>>

\* A fault: only the first queue is removed.
remove_msg_Half(p, l1, l2, rest) ==
    remove_queue(p, "in", l1, rest, rest) /\ UNCHANGED left

remove_msg(p, l1, l2, rest) ==
    \/ remove_queue(p, "in", l1, l2, rest) /\ UNCHANGED left
    \/ remove_queue(p, "out", l2, rest, rest) /\ UNCHANGED left

\* remove_shm for -r, before the queues are removed.
rm_shm(p) ==
    /\ pc[p] = "rm shm"
    /\ IF Live("shm", obj["shm"]) THEN Remove(p, "shm") ELSE UNCHANGED <<kernelVars, id, robbed>>
    /\ GoTo(p, "rm in")
    /\ UNCHANGED <<rflag, lists, starts, left, clientVars>>

\* The objects are there already: "Please use -r option to remove the old shared memory."
create_shm(p) ==
    /\ pc[p] = "create shm"
    /\ \/ Make(p, "shm") /\ GoTo(p, "init") /\ UNCHANGED lists
       \/ obj["shm"] # 0 /\ Exit(p) /\ UNCHANGED kernelVars
    /\ left' = (left /\ ~rflag[p])
    /\ UNCHANGED <<rflag, starts, robbed, clientVars>>

init_shm(p) ==
    /\ pc[p] = "init"
    /\ lists' = [lists EXCEPT ![p] = TRUE]
    /\ GoTo(p, "create in")
    /\ UNCHANGED <<kernelVars, id, rflag, starts, left, robbed, clientVars>>

\* create_msg.  That the second queue exists already goes unnoticed: the id of the first is
\* tested again, and msg_id_out stays -1.
create_msg(p) ==
    /\ \/ pc[p] = "create in" /\ Make(p, "in") /\ GoTo(p, "create out")
       \/ pc[p] = "create in" /\ Exists(p, "in") /\ GoTo(p, "give up")
       \/ pc[p] = "create out" /\ Make(p, "out") /\ GoTo(p, "serve")
       \/ pc[p] = "create out" /\ Exists(p, "out") /\ GoTo(p, "serve")
    /\ UNCHANGED <<rflag, lists, starts, left, robbed, clientVars>>

\* do_listen and message: a CONNECT is answered; without a queue to send to the answer stays
\* in the send queue.
HandleConnect(p) ==
    /\ pc[p] = "serve" /\ Live("in", id[p]["in"])
    /\ \E c \in Clients :
        /\ <<id[p]["in"], c>> \in msgs
        /\ msgs' = (msgs \ {<<id[p]["in"], c>>}) \cup
                     (IF Live("out", id[p]["out"]) THEN {<<id[p]["out"], c>>} ELSE {})
    /\ UNCHANGED <<obj, made, routerVars, clientVars>>

\* RTR_TERMINATE, or the queue the router waits at was removed: listen returns.
Terminate(p) ==
    /\ pc[p] = "serve"
    /\ GoTo(p, "quit in")
    /\ UNCHANGED <<kernelVars, id, rflag, lists, starts, left, robbed, clientVars>>

\* SIGINT, SIGQUIT or SIGHUP while the router is not in listen: quit, from the beginning.
Signal(p) ==
    /\ \/ pc[p] \in Starting \cup {"give up"} /\ "signal at start" \in may
       \/ pc[p] \in {"quit out", "quit shm"} /\ "second signal" \in may
    /\ GoTo(p, "quit in")
    /\ UNCHANGED <<kernelVars, id, rflag, lists, starts, left, robbed, clientVars>>

\* remove_shm at the end.  clear_shmbuf walks lists that init_shm makes.
quit_shm(p) ==
    /\ pc[p] \in {"quit shm", "give up"}
    /\ IF Live("shm", Target(p, "shm")) /\ (id[p]["shm"] # 0 => lists[p])
       THEN /\ obj' = [obj EXCEPT !["shm"] = 0]
            /\ robbed' = (robbed \/ (~rflag[p] /\ \E q \in Routers \ {p} :
                                        Going(q) /\ id[q]["shm"] = Target(p, "shm")))
            /\ UNCHANGED <<made, msgs>>
       ELSE UNCHANGED <<kernelVars, robbed>>
    /\ Exit(p)
    /\ UNCHANGED <<rflag, starts, left, clientVars>>

\* The process is killed; what it has made stays in the kernel.
Kill(p) ==
    /\ Going(p) /\ "kill" \in may
    /\ pc[p] \in Removing => "kill in removal" \in may
    /\ Exit(p) /\ left' = TRUE
    /\ UNCHANGED <<kernelVars, rflag, starts, robbed, clientVars>>

main(p) ==
    \/ rm_shm(p) \/ remove_msg(p, "rm in", "rm out", "create shm")
    \/ create_shm(p) \/ init_shm(p) \/ create_msg(p)
    \/ HandleConnect(p) \/ (Terminate(p) /\ ~Live("in", id[p]["in"]))
    \/ remove_msg(p, "quit in", "quit out", "quit shm") \/ quit_shm(p)

-----------------------------------------------------------------------------
(* router_connect *)

CGoTo(c, l) == cp' = [cp EXCEPT ![c] = l]
Fail(c) == CGoTo(c, "off") /\ cid' = [cid EXCEPT ![c] = NoIds]

\* msgget of the router's two queues, first the one the replies come from.
GetQueues(c) ==
    /\ \/ /\ cp[c] = "off" /\ calls < MaxCalls /\ calls' = calls + 1
          /\ obj["out"] # 0 /\ cid' = [cid EXCEPT ![c]["out"] = obj["out"]] /\ CGoTo(c, "queue")
       \/ /\ cp[c] = "queue" /\ UNCHANGED calls
          /\ IF obj["in"] # 0 THEN cid' = [cid EXCEPT ![c]["in"] = obj["in"]] /\ CGoTo(c, "send")
                              ELSE Fail(c)
    /\ UNCHANGED <<kernelVars, routerVars>>

SendConnect(c) ==
    /\ cp[c] = "send"
    /\ IF Live("in", cid[c]["in"])
       THEN /\ msgs' = (msgs \ {<<cid[c]["out"], c>>}) \cup {<<cid[c]["in"], c>>}
            /\ CGoTo(c, "wait") /\ UNCHANGED cid
       ELSE Fail(c) /\ UNCHANGED msgs
    /\ UNCHANGED <<obj, made, calls, routerVars>>

\* The reply, or "Could not get a reply" when the queue is gone.
GetReply(c) ==
    /\ cp[c] = "wait"
    /\ IF Live("out", cid[c]["out"])
       THEN /\ <<cid[c]["out"], c>> \in msgs
            /\ msgs' = msgs \ {<<cid[c]["out"], c>>}
            /\ CGoTo(c, "attach") /\ UNCHANGED cid
       ELSE Fail(c) /\ UNCHANGED msgs
    /\ UNCHANGED <<obj, made, calls, routerVars>>

\* shmget and shmat.
Attach(c) ==
    /\ cp[c] = "attach"
    /\ IF obj["shm"] # 0 THEN cid' = [cid EXCEPT ![c]["shm"] = obj["shm"]] /\ CGoTo(c, "on")
                         ELSE Fail(c)
    /\ UNCHANGED <<kernelVars, calls, routerVars>>

\* router_disconnect, or the end of the process: what it has asked, and the answer, stay in the
\* queues.
Leave(c) ==
    /\ cp[c] \in {"on", "wait"}
    /\ Fail(c)
    /\ UNCHANGED <<kernelVars, calls, routerVars>>

router_connect(c) == GetQueues(c) \/ SendConnect(c) \/ GetReply(c) \/ Attach(c)

LifeNext ==
    /\ \/ \E p \in Routers : Start(p) \/ main(p) \/ Terminate(p) \/ Signal(p) \/ Kill(p)
       \/ \E c \in Clients : router_connect(c) \/ Leave(c)
    /\ UNCHANGED may

LifeSpec == LifeInit /\ [][LifeNext]_lifeVars

-----------------------------------------------------------------------------
(* Properties *)

\* Every variable has its type; ids are those of objects that were made.
LifeTypeOK ==
    /\ obj \in [Kinds -> 0 .. made] /\ made \in Nat
    /\ \A m \in msgs : m[1] \in 1 .. made /\ m[2] \in Clients
    /\ id \in [Routers -> [Kinds -> 0 .. made]] /\ cid \in [Clients -> [Kinds -> 0 .. made]]
    /\ pc \in [Routers -> Starting \cup {"off", "serve", "give up", "quit in", "quit out", "quit shm"}]
    /\ cp \in [Clients -> {"off", "queue", "send", "wait", "attach", "on"}]

\* No router is started while another one runs, or it is one that can take nothing away: it was
\* not started with -r, and no signal ends it before it has found the objects of the other.
Apart == "overlap" \in may => may \cap {"-r", "signal at start"} = {}

\* Nothing ends a router while it sets up or removes its objects.
Orderly == Apart /\ may \cap {"kill in removal", "signal at start", "second signal"} = {}

\* A client has the memory of the router that serves its queue.
SameRouter ==
    \A c \in Clients, p \in Routers :
        cp[c] = "on" /\ pc[p] = "serve" /\ cid[c]["in"] = id[p]["in"] => cid[c]["shm"] = id[p]["shm"]

\* A start without -r takes nothing away from a router that runs, also when it fails half way.
NotRobbed == ~robbed

\* A router that serves has all its objects: it can answer, and its clients find its memory.
Equipped == \A p \in Routers : pc[p] = "serve" => \A k \in Kinds : Live(k, id[p][k])

\* Once all routers have ended, and not by a kill, the kernel keeps nothing of them.
NothingLeft == (\A p \in Routers : ~Going(p)) /\ ~left => obj = NoIds

\* router and router_connect: routers that follow each other, or are started over each other
\* without -r, never get mixed up, whenever they are killed; and as long as none is ended while
\* it sets up or removes its objects, these are complete while it serves and gone behind it.
LifeRight ==
    /\ Apart => SameRouter /\ NotRobbed
    /\ Orderly => Equipped /\ NothingLeft
=============================================================================
