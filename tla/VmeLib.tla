------------------------------- MODULE VmeLib -------------------------------
(***************************************************************************)
(* How the hardware libraries (v1190, madc32, mqdc32, v977, v830, v792,    *)
(* v1720, myriad) get at their modules: the bus is initialised, a window   *)
(* onto the VME bus is created and mapped, and a pointer into the window   *)
(* is handed to the program.  Three shapes of library: one window over all *)
(* modules ("shared"), a window for each module ("each"), one module       *)
(* ("one").  The calls of the VME driver are external; each may fail.      *)
(***************************************************************************)
EXTENDS Integers, FiniteSetsExt

CONSTANTS
    Library,    \* the library: a field of Libraries
    Modules,    \* module numbers that are in range
    Faults,     \* what may fail: "init", "create", "map", "unmap", "release", "term", "absent"
    GoesOn,     \* the program goes on after an error; otherwise it closes the library and ends
    MaxWindows  \* windows created in a run

Shared(check) == [shape |-> "shared", check |-> check]
Each(check)   == [shape |-> "each", check |-> check]
One           == [shape |-> "one", check |-> FALSE]

v1190  == Shared(TRUE)
madc32 == Shared(FALSE)
mqdc32 == Shared(FALSE)
v977   == Each(TRUE)
v830   == Each(TRUE)
v792   == Each(TRUE)
v1720  == Each(TRUE)
v1190o == Each(TRUE)
myriad == One

Libraries == [v1190 |-> v1190, madc32 |-> madc32, mqdc32 |-> mqdc32, v977 |-> v977,
              v830 |-> v830, v792 |-> v792, v1720 |-> v1720, v1190o |-> v1190o,
              myriad |-> myriad]

shape == Libraries[Library].shape
check == Libraries[Library].check

VARIABLES
    drv,            \* the driver: bus handle, windows that exist, windows mapped into the
                    \* process, windows created so far, a call with a handle that is gone
    window_handle,  \* per module, or at 0 for the only window: a window or 0
    table,          \* the library's pointers: per module the window pointed into, or 0
    held,           \* what the program has from map and has not given back
    stage           \* the program: "start", "open", "failed", "ended"

vars == <<drv, window_handle, table, held, stage>>

Null == [m \in Modules |-> 0]

-----------------------------------------------------------------------------
(* The driver: external *)

Fails(what) == IF what \in Faults THEN BOOLEAN ELSE {FALSE}
Used(d, w) == d.misuse \/ d.bus # "live" \/ w \notin d.windows

vme_term(d) == [d EXCEPT !.bus = "dead", !.misuse = @ \/ d.bus # "live"]
vme_master_window_create(d) ==
    [d EXCEPT !.n = @ + 1, !.windows = @ \cup {d.n + 1}, !.misuse = @ \/ d.bus # "live"]
vme_master_window_map(d, w) == [d EXCEPT !.mapped = @ \cup {w}, !.misuse = Used(d, w)]
vme_master_window_unmap(d, w) == [d EXCEPT !.mapped = @ \ {w}, !.misuse = Used(d, w)]
vme_master_window_release(d, w) ==
    [d EXCEPT !.windows = @ \ {w}, !.mapped = @ \ {w}, !.misuse = Used(d, w)]

-----------------------------------------------------------------------------

Init ==
    /\ drv = [bus |-> "none", windows |-> {}, mapped |-> {}, n |-> 0, misuse |-> FALSE]
    /\ window_handle = Null /\ table = Null /\ held = Null
    /\ stage = "start"

\* The program after a call: it goes on, or it has met an error and will only close.
After(error) == stage' = IF error /\ ~GoesOn THEN "failed" ELSE stage

open ==
    /\ stage = "start"
    /\ \E fail \in Fails("init") :
          IF fail THEN stage' = "ended" /\ UNCHANGED drv
                  ELSE stage' = "open" /\ drv' = [drv EXCEPT !.bus = "live"]
    /\ UNCHANGED <<window_handle, table, held>>

\* Creating and mapping a window, the clean-up after a failure of either included.
Window(w) ==
    IF w.create THEN vme_term(drv)
    ELSE LET d == vme_master_window_create(drv)
         IN  IF w.map THEN vme_term(vme_master_window_release(d, d.n))
                      ELSE vme_master_window_map(d, d.n)

Outcome == {w \in [create : Fails("create"), map : Fails("map")] : w.create => ~w.map}
Absent == IF check THEN Fails("absent") ELSE {FALSE}

\* The window is unmapped and released; u and r: the driver refuses.
Drop(d, w, u, r) ==
    LET d1 == IF u THEN d ELSE vme_master_window_unmap(d, w)
    IN  IF u \/ ~r THEN vme_master_window_release(d1, w) ELSE d1

\* v1190_map, madc32_map, mqdc32_map: the first call makes the window for all modules; a
\* failed map leaves the handle of the released window.
MapShared(m) ==
    /\ shape = "shared" /\ stage = "open"
    /\ \E w \in Outcome, absent \in Absent :
        LET new  == window_handle[0] = 0
            d    == IF new THEN Window(w) ELSE drv
            t    == IF ~new \/ w.create THEN table
                    ELSE IF w.map THEN [table EXCEPT ![0] = 0]
                    ELSE [i \in Modules |-> d.n]
            null == absent \/ t[m] = 0 \/ (new /\ (w.create \/ w.map))
        IN  /\ new => drv.n < MaxWindows
            /\ drv' = d /\ table' = t
            /\ window_handle' = IF new /\ ~w.create THEN [window_handle EXCEPT ![0] = d.n]
                                                    ELSE window_handle
            /\ held' = IF null THEN held ELSE [held EXCEPT ![m] = t[m]]
            /\ After(null)

\* v977_map, v830_map, v792_map, v1720_map and v1190_map of v1190o.
MapEach(m) ==
    /\ shape = "each" /\ stage = "open"
    /\ IF window_handle[m] # 0
       THEN UNCHANGED <<drv, window_handle, table, held>> /\ After(TRUE)
       ELSE /\ drv.n < MaxWindows
            /\ \E w \in Outcome, absent \in Absent, u \in Fails("unmap"), r \in Fails("release") :
                LET d    == Window(w)
                    ok   == ~w.create /\ ~w.map
                    gone == ok /\ absent
                IN  /\ drv' = IF gone THEN Drop(d, d.n, u, r) ELSE d
                    /\ window_handle' =
                          IF w.create \/ (gone /\ ~u /\ ~r) THEN window_handle
                          ELSE [window_handle EXCEPT ![m] = d.n]
                    /\ table' = IF w.create THEN table
                                ELSE [table EXCEPT ![m] = IF w.map THEN 0 ELSE d.n]
                    /\ held' = IF ok /\ ~absent THEN [held EXCEPT ![m] = d.n] ELSE held
                    /\ After(~ok \/ absent)

\* myriad_map
MapOne(m) ==
    /\ shape = "one" /\ stage = "open" /\ m = 0
    /\ \E w \in Outcome :
        LET new == window_handle[0] = 0
            d   == IF new THEN Window(w) ELSE drv
            t   == IF ~new \/ w.create THEN table ELSE [table EXCEPT ![0] = IF w.map THEN 0 ELSE d.n]
            null == t[0] = 0 \/ (new /\ (w.create \/ w.map))
        IN  /\ new => drv.n < MaxWindows
            /\ drv' = d /\ table' = t
            /\ window_handle' = IF new /\ ~w.create THEN [window_handle EXCEPT ![0] = d.n]
                                                    ELSE window_handle
            /\ held' = IF null THEN held ELSE [held EXCEPT ![0] = t[0]]
            /\ After(null)

\* A fault: the window goes with the first module that is given back.
UnmapShared_All(m) ==
    /\ shape = "shared" /\ stage = "open" /\ window_handle[0] # 0
    /\ drv' = Drop(drv, window_handle[0], FALSE, FALSE)
    /\ window_handle' = [window_handle EXCEPT ![0] = 0]
    /\ held' = [held EXCEPT ![m] = 0]
    /\ UNCHANGED <<table, stage>>

\* v1190_unmap, madc32_unmap, mqdc32_unmap: nothing is done.
UnmapShared(m) ==
    /\ shape = "shared" /\ stage = "open"
    /\ held' = [held EXCEPT ![m] = 0]
    /\ UNCHANGED <<drv, window_handle, table, stage>>

\* v977_unmap and its sisters: the handle stays when the driver refuses.
UnmapEach(m) ==
    /\ shape = "each" /\ stage = "open"
    /\ held' = [held EXCEPT ![m] = 0]
    /\ IF window_handle[m] = 0
       THEN UNCHANGED <<drv, window_handle>> /\ After(TRUE)
       ELSE \E u \in Fails("unmap"), r \in Fails("release") :
              /\ drv' = Drop(drv, window_handle[m], u, r)
              /\ window_handle' = IF u \/ r THEN window_handle ELSE [window_handle EXCEPT ![m] = 0]
              /\ After(u \/ r)
    /\ UNCHANGED table

\* myriad_unmap
UnmapOne(m) ==
    /\ shape = "one" /\ stage = "open" /\ m = 0
    /\ held' = [held EXCEPT ![0] = 0]
    /\ IF window_handle[0] = 0
       THEN UNCHANGED <<drv, window_handle, table>> /\ After(TRUE)
       ELSE /\ \E u \in Fails("unmap") :
                 drv' = vme_master_window_release(
                          IF table[0] = 0 \/ u THEN drv
                          ELSE vme_master_window_unmap(drv, window_handle[0]), window_handle[0])
            /\ window_handle' = Null /\ table' = Null
            /\ UNCHANGED stage

Over == stage' = IF stage = "open" /\ GoesOn THEN "start" ELSE "ended"

\* v1190_close, madc32_close, mqdc32_close: not without a window, and not the bus alone.
CloseShared ==
    /\ shape = "shared" /\ stage \in {"open", "failed"}
    /\ held' = Null
    /\ IF window_handle[0] = 0
       THEN UNCHANGED <<drv, window_handle, table>>
       ELSE /\ \E u \in Fails("unmap"), r \in Fails("release") :
                 LET w == window_handle[0]
                     d == Drop(drv, w, u, r)
                 IN  drv' = vme_term(IF u /\ ~r THEN vme_master_window_release(d, w) ELSE d)
            /\ window_handle' = Null /\ table' = Null
    /\ Over

\* v977_close and its sisters: what is still mapped is unmapped first.
CloseEach ==
    /\ shape = "each" /\ stage \in {"open", "failed"}
    /\ held' = Null
    /\ \E u, r \in [Modules -> BOOLEAN] :
        LET some == {m \in Modules : window_handle[m] # 0}
        IN  /\ \A m \in Modules : u[m] \in Fails("unmap") /\ r[m] \in Fails("release")
            /\ drv' = vme_term(FoldSet(LAMBDA m, d : Drop(d, window_handle[m], u[m], r[m]),
                                       drv, some))
            /\ window_handle' = [m \in Modules |-> IF u[m] \/ r[m] THEN window_handle[m] ELSE 0]
    /\ UNCHANGED table
    /\ Over

\* myriad_close: nothing is done.
CloseOne ==
    /\ shape = "one" /\ stage \in {"open", "failed"}
    /\ Over
    /\ UNCHANGED <<drv, window_handle, table, held>>

Next ==
    \/ open
    \/ \E m \in Modules : MapShared(m) \/ MapEach(m) \/ MapOne(m)
    \/ \E m \in Modules : UnmapShared(m) \/ UnmapEach(m) \/ UnmapOne(m)
    \/ CloseShared \/ CloseEach \/ CloseOne

Spec == Init /\ [][Next]_vars

-----------------------------------------------------------------------------

\* A pointer that map gave to the program points into a window that is mapped, on a bus that
\* has not been terminated, until the program gives it back or closes the library.  A program
\* that goes on after a failed create or map goes on with a terminated bus.
HeldIsMapped ==
    stage = "open" /\ (GoesOn => Faults \cap {"create", "map"} = {}) =>
        \A m \in Modules : held[m] # 0 => held[m] \in drv.mapped /\ drv.bus = "live"

\* The handle the library keeps names a window that exists: map takes a kept handle for a
\* window that need not be made again.  After a failed map it is the handle of the window that
\* was released again, and so it is in a library with a window for each module after a failed
\* unmap.
HandleLive ==
    "map" \notin Faults /\ (shape = "each" => "unmap" \notin Faults) =>
        \A m \in Modules : window_handle[m] # 0 => window_handle[m] \in drv.windows

\* No call of the driver is made with a window that was released or a bus that was terminated.
\* A failed map or create terminates the bus, and a failed unmap releases the window, before
\* close does it again; but close of the shared window does nothing after a failed create.
NoMisuse ==
    /\ Faults \cap {"map", "unmap"} = {}
    /\ "create" \in Faults => ~GoesOn /\ shape # "each"
    => ~drv.misuse

\* Closing the library leaves no window behind, unless the driver does not release it.
\* (myriad_close does nothing.)
NothingLeft ==
    shape # "one" /\ "release" \notin Faults /\ stage \in {"start", "ended"} => drv.windows = {}
=============================================================================
