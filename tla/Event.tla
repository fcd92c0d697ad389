------------------------------- MODULE Event -------------------------------
(***************************************************************************)
(* The event-server client of frisbee.redux, src/frisbee.redux/event.c:   *)
(* the static ehandle, tuple and eserver, and the calls EventInit,         *)
(* EventDeinit and EventSendClientReport, with EventReinit, which both     *)
(* call, inlined.  The event library is the environment: event_register    *)
(* and event_notify may fail (server down, connection lost), and every     *)
(* allocation may return NULL.  Report contents are left out.              *)
(***************************************************************************)
EXTENDS Naturals

CONSTANTS
  MaxSends    \* calls of EventSendClientReport explored

ASSUME EventAssumption == MaxSends \in Nat

(* The library objects the client holds: its handle and address tuple,    *)
(* with the number of registrations and tuples the library has handed out *)
(* and not yet had back.                                                   *)
Conn == [eh : {"null", "live"}, tu : {"null", "live"}, regs : Nat, tuples : Nat]

VARIABLES
  conn,       \* ehandle, tuple and what the library has handed out
  eserver,    \* "null", or "set" once strdup() has kept a server name
  inited,     \* EventInit has been called
  delivered,  \* reports event_notify accepted
  sends,      \* calls of EventSendClientReport so far
  crashed     \* tuple->host was written through a NULL tuple

vars == <<conn, eserver, inited, delivered, sends, crashed>>

(* EventDeinit(): free the tuple and unregister, when registered. *)
DeinitKeepsTuple(c) ==
  IF c.eh = "live" THEN [c EXCEPT !.eh = "null", !.regs = @ - 1] ELSE c
DeinitUnguarded(c) ==
  [eh |-> "null", tu |-> "null", regs |-> c.regs - 1,
   tuples |-> IF c.tu = "live" THEN c.tuples - 1 ELSE c.tuples]
Deinit(c) ==
  IF c.eh = "live"
    THEN [eh |-> "null", tu |-> "null", regs |-> c.regs - 1,
          tuples |-> IF c.tu = "live" THEN c.tuples - 1 ELSE c.tuples]
    ELSE c

(* ehandle = event_register(eserver, 0); tuple = address_tuple_alloc(),   *)
(* which may return NULL.                                                  *)
Register(c) == [eh |-> "live", tu |-> c.tu, regs |-> c.regs + 1, tuples |-> c.tuples]
TupleAlloc(c) == [eh |-> c.eh, tu |-> "live", regs |-> c.regs, tuples |-> c.tuples + 1]
TupleNull(c) == [eh |-> c.eh, tu |-> "null", regs |-> c.regs, tuples |-> c.tuples]

(* EventReinit(): the outcomes [rv, c] it can return with, the server name *)
(* being srv.  Registered already: 0.  No name: 1.  event_register fails:  *)
(* 1.  Registered: a tuple is allocated (0), or its allocation fails and   *)
(* EventDeinit() undoes the registration (1).                              *)
ReinitNoDeinit(c, srv) ==
  IF c.eh = "live" THEN {[rv |-> 0, c |-> c]}
  ELSE IF srv = "null" THEN {[rv |-> 1, c |-> c]}
  ELSE {[rv |-> 1, c |-> c],
        [rv |-> 0, c |-> TupleAlloc(Register(c))],
        [rv |-> 1, c |-> TupleNull(Register(c))]}
ReinitAnyName(c, srv) ==
  IF c.eh = "live" THEN {[rv |-> 0, c |-> c]}
  ELSE {[rv |-> 1, c |-> c],
        [rv |-> 0, c |-> TupleAlloc(Register(c))],
        [rv |-> 1, c |-> Deinit(TupleNull(Register(c)))]}
Reinit(c, srv) ==
  IF c.eh = "live" THEN {[rv |-> 0, c |-> c]}
  ELSE IF srv = "null" THEN {[rv |-> 1, c |-> c]}
  ELSE {[rv |-> 1, c |-> c],
        [rv |-> 0, c |-> TupleAlloc(Register(c))],
        [rv |-> 1, c |-> Deinit(TupleNull(Register(c)))]}

-----------------------------------------------------------------------------
(* The calls.                                                              *)

(* EventInit(server): no server, return 1; otherwise keep "elvin://server" *)
(* (strdup() may fail) and EventReinit().  The server calls it once.       *)
EventInit ==
  /\ ~inited /\ ~crashed
  /\ inited' = TRUE
  /\ \/ UNCHANGED <<conn, eserver>>                  \* server == NULL
     \/ \E srv \in {"set", "null"} :
          /\ eserver' = srv
          /\ \E r \in Reinit(conn, srv) : conn' = r.c
  /\ UNCHANGED <<delivered, sends, crashed>>

EventDeinit ==
  /\ ~crashed
  /\ conn' = Deinit(conn)
  /\ UNCHANGED <<eserver, inited, delivered, sends, crashed>>

(* EventSendClientReport(): reconnect when disconnected, fill in the tuple,*)
(* allocate a notification, notify.  A failed notify frees the             *)
(* notification and disconnects, so the next report reconnects.            *)
EventSendClientReport ==
  /\ ~crashed
  /\ sends < MaxSends
  /\ sends' = sends + 1
  /\ \E r \in IF conn.eh = "null" THEN Reinit(conn, eserver)
                                  ELSE {[rv |-> 0, c |-> conn]} :
       \/ /\ r.rv # 0                                     \* return 1
          /\ conn' = r.c
          /\ UNCHANGED <<delivered, crashed>>
       \/ /\ r.rv = 0                                     \* tuple->host = ...
          /\ crashed' = (r.c.tu = "null")
          /\ \/ conn' = r.c /\ UNCHANGED delivered        \* no notification
             \/ ~crashed' /\ conn' = Deinit(r.c) /\ UNCHANGED delivered
                                                       \* event_notify fails
             \/ ~crashed' /\ conn' = r.c /\ delivered' = delivered + 1
  /\ UNCHANGED <<eserver, inited>>

Init ==
  /\ conn = [eh |-> "null", tu |-> "null", regs |-> 0, tuples |-> 0]
  /\ eserver = "null"
  /\ inited = FALSE
  /\ delivered = 0
  /\ sends = 0
  /\ crashed = FALSE

Next == EventInit \/ EventDeinit \/ EventSendClientReport

Spec == Init /\ [][Next]_vars

-----------------------------------------------------------------------------
(* Properties.                                                             *)

TypeOK ==
  /\ conn \in Conn
  /\ eserver \in {"null", "set"}
  /\ inited \in BOOLEAN
  /\ delivered \in 0..MaxSends
  /\ sends \in 0..MaxSends
  /\ crashed \in BOOLEAN

(* EventSendClientReport never writes through a NULL tuple (event.c:122): *)
(* whenever the client is registered it holds a tuple, across a failed    *)
(* tuple allocation in EventReinit and a disconnect after a failed notify. *)
NoNullTuple == ~crashed /\ (conn.eh = "live" => conn.tu = "live")

(* No registration and no tuple is leaked: the library has handed out     *)
(* exactly the handle and tuple the statics hold, whatever the order of   *)
(* reconnects, failed allocations and disconnects.                         *)
NoLeak ==
  /\ conn.regs = IF conn.eh = "live" THEN 1 ELSE 0
  /\ conn.tuples = IF conn.tu = "live" THEN 1 ELSE 0

(* The client implements EventSession: the session is the registration,   *)
(* the server name is eserver.                                             *)
Session == INSTANCE EventSession WITH
  server <- IF eserver = "set" THEN "known" ELSE "none",
  session <- IF conn.eh = "live" THEN "open" ELSE "closed",
  delivered <- delivered

(* Refinement: every run of the client is a run of EventSession; reports  *)
(* are delivered only over a registration, and one is made only with a    *)
(* server name (EventReinit's eserver == NULL check).                      *)
ImplementsSession == Session!ASpec

=============================================================================
