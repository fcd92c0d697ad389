---------------------------- MODULE EventProofs -----------------------------
(***************************************************************************)
(* Proofs about the event-server client of Event.tla, for every bound on  *)
(* the reports sent: its invariants, and that it implements EventSession. *)
(***************************************************************************)
EXTENDS Event, TLAPS

(* The statics between calls: a registration exactly when a tuple, each   *)
(* handed out once.                                                        *)
Good(c) ==
  /\ c \in Conn
  /\ c.tu = c.eh
  /\ c.regs = IF c.eh = "live" THEN 1 ELSE 0
  /\ c.tuples = IF c.eh = "live" THEN 1 ELSE 0

(* The inductive invariant.  NoNullTuple and NoLeak alone are not         *)
(* inductive: a tuple held without a registration would be overwritten by *)
(* the next EventReinit, so a tuple must be held exactly with a            *)
(* registration.  A registration needs a server name, and neither is held *)
(* before EventInit.                                                       *)
IInv ==
  /\ Good(conn)
  /\ eserver \in {"null", "set"}
  /\ inited \in BOOLEAN
  /\ crashed = FALSE
  /\ delivered \in Nat /\ sends \in Nat
  /\ delivered <= sends /\ sends <= MaxSends
  /\ conn.eh = "live" => eserver = "set"
  /\ ~inited => conn.eh = "null" /\ eserver = "null"

-----------------------------------------------------------------------------
(* Lemmas about the helpers.                                               *)

(* EventDeinit() leaves the statics good and unregistered. *)
LEMMA DeinitGood ==
  ASSUME NEW c, Good(c)
  PROVE  Good(Deinit(c)) /\ Deinit(c).eh = "null"
BY DEF Good, Conn, Deinit

(* EventReinit() from good statics: it returns 0 exactly when it leaves a *)
(* registration, registers only with a server name, and keeps a           *)
(* registration it already had.                                            *)
LEMMA ReinitGood ==
  ASSUME NEW c, Good(c), NEW srv, NEW r \in Reinit(c, srv)
  PROVE  /\ Good(r.c)
         /\ r.rv = 0 <=> r.c.eh = "live"
         /\ r.c.eh = "live" => c.eh = "live" \/ srv # "null"
<1>1. CASE c.eh = "live"
  BY <1>1 DEF Reinit
<1>2. CASE c.eh # "live" /\ srv = "null"
  BY <1>2 DEF Reinit
<1>3. CASE c.eh # "live" /\ srv # "null"
  <2>1. c \in Conn /\ c.eh = "null" /\ c.tu = "null" /\ c.regs = 0 /\ c.tuples = 0
    BY <1>3 DEF Good, Conn
  <2>2. Good(TupleAlloc(Register(c))) /\ TupleAlloc(Register(c)).eh = "live"
    BY <2>1 DEF Good, Conn, TupleAlloc, Register
  <2>3. Good(Deinit(TupleNull(Register(c))))
        /\ Deinit(TupleNull(Register(c))).eh = "null"
    BY <2>1 DEF Good, Conn, Deinit, TupleNull, Register
  <2>4. r \in {[rv |-> 1, c |-> c], [rv |-> 0, c |-> TupleAlloc(Register(c))],
               [rv |-> 1, c |-> Deinit(TupleNull(Register(c)))]}
    BY <1>3 DEF Reinit
  <2>. QED
    BY <1>3, <2>1, <2>2, <2>3, <2>4
<1>. QED
  BY <1>1, <1>2, <1>3

-----------------------------------------------------------------------------
(* The invariants.                                                         *)

LEMMA InitIInv == Init => IInv
<1> SUFFICES ASSUME Init PROVE IInv
  OBVIOUS
<1>1. Good(conn)
  BY DEF Init, Good, Conn
<1>2. sends <= MaxSends
  BY EventAssumption DEF Init
<1>3. /\ conn.eh = "null" /\ eserver = "null" /\ inited = FALSE
      /\ delivered = 0 /\ sends = 0 /\ crashed = FALSE
  BY DEF Init
<1>4. delivered \in Nat /\ sends \in Nat /\ delivered <= sends
  BY <1>3
<1>. QED
  BY <1>1, <1>2, <1>3, <1>4, Zenon DEF IInv

(* A report: the invariant is kept, a registration held afterwards was  *)
(* made with a server name, and a report is delivered only over one.       *)
LEMMA SendStep ==
  ASSUME IInv, EventSendClientReport
  PROVE  /\ IInv'
         /\ conn'.eh = "live" => eserver = "set"
         /\ delivered' = delivered \/ delivered' = delivered + 1
         /\ delivered' = delivered + 1 => conn'.eh = "live"
         /\ UNCHANGED eserver
<1>. DEFINE Rs == IF conn.eh = "null" THEN Reinit(conn, eserver)
                                      ELSE {[rv |-> 0, c |-> conn]}
<1>1. PICK r \in Rs :
        \/ r.rv # 0 /\ conn' = r.c /\ UNCHANGED <<delivered, crashed>>
        \/ /\ r.rv = 0 /\ crashed' = (r.c.tu = "null")
           /\ \/ conn' = r.c /\ UNCHANGED delivered
              \/ ~crashed' /\ conn' = Deinit(r.c) /\ UNCHANGED delivered
              \/ ~crashed' /\ conn' = r.c /\ delivered' = delivered + 1
  BY DEF EventSendClientReport
<1>2. /\ Good(r.c)
      /\ r.rv = 0 <=> r.c.eh = "live"
      /\ r.c.eh = "live" => eserver = "set"
  <2>1. CASE conn.eh = "null"
    BY <2>1, ReinitGood DEF IInv
  <2>2. CASE conn.eh # "null"
    BY <2>2 DEF IInv, Good, Conn
  <2>. QED
    BY <2>1, <2>2
<1>3. r.rv = 0 => r.c.tu = "live"
  BY <1>2 DEF Good
<1>4. Good(Deinit(r.c)) /\ Deinit(r.c).eh = "null"
  BY <1>2, DeinitGood
<1>5. /\ sends < MaxSends /\ sends' = sends + 1
      /\ sends \in Nat /\ delivered \in Nat /\ delivered <= sends
  BY DEF EventSendClientReport, IInv
<1>6. /\ UNCHANGED <<eserver, inited>>
      /\ ~inited => conn.eh = "null" /\ eserver = "null"
  BY DEF EventSendClientReport, IInv
<1>7. ~inited => r.c.eh = "null"
  BY <1>2, <1>6 DEF Good, Conn
<1>8. delivered' = delivered \/ delivered' = delivered + 1
  BY <1>1
<1>9. /\ conn' \in {r.c, Deinit(r.c)}
      /\ crashed' = FALSE
  BY <1>1, <1>3 DEF IInv
<1>10. /\ delivered' \in Nat /\ sends' \in Nat
      /\ delivered' <= sends' /\ sends' <= MaxSends
  BY <1>5, <1>8, EventAssumption
<1>11. Good(conn')
  BY <1>2, <1>4, <1>9
<1>12. conn'.eh = "live" => eserver' = "set"
  BY <1>2, <1>4, <1>6, <1>9
<1>13. ~inited' => conn'.eh = "null" /\ eserver' = "null"
  BY <1>4, <1>6, <1>7, <1>9
<1>14. delivered # delivered + 1
  BY <1>5
<1>15. delivered' = delivered + 1 => conn' = r.c /\ r.rv = 0
  BY <1>1, <1>14
<1>16. IInv'
  BY <1>6, <1>9, <1>10, <1>11, <1>12, <1>13, Zenon DEF IInv
<1>. QED
  BY <1>2, <1>6, <1>12, <1>8, <1>15, <1>16

LEMMA NextIInv == IInv /\ [Next]_vars => IInv'
<1> SUFFICES ASSUME IInv, [Next]_vars PROVE IInv'
  OBVIOUS
<1>1. CASE EventInit
  <2>1. CASE UNCHANGED <<conn, eserver>>
    BY <1>1, <2>1 DEF EventInit, IInv, Good
  <2>2. CASE \E srv \in {"set", "null"} :
               eserver' = srv /\ \E r \in Reinit(conn, srv) : conn' = r.c
    <3>1. PICK srv \in {"set", "null"} :
            eserver' = srv /\ \E r \in Reinit(conn, srv) : conn' = r.c
      BY <2>2
    <3>2. PICK r \in Reinit(conn, srv) : conn' = r.c
      BY <3>1
    <3>3. Good(r.c) /\ (r.c.eh = "live" => conn.eh = "live" \/ srv # "null")
      BY <3>2, ReinitGood DEF IInv
    <3>. QED
      BY <1>1, <3>1, <3>2, <3>3 DEF EventInit, IInv
  <2>. QED
    BY <1>1, <2>1, <2>2 DEF EventInit
<1>2. CASE EventDeinit
  BY <1>2, DeinitGood DEF EventDeinit, IInv
<1>3. CASE EventSendClientReport
  BY <1>3, SendStep
<1>4. CASE UNCHANGED vars
  <2>1. conn' = conn /\ eserver' = eserver /\ inited' = inited
        /\ delivered' = delivered /\ sends' = sends /\ crashed' = crashed
    BY <1>4 DEF vars
  <2>. QED
    BY <2>1 DEF IInv, Good
<1>. QED
  BY <1>1, <1>2, <1>3, <1>4 DEF Next

(* Invariance: whatever the order of reports, failed registrations and    *)
(* allocations and disconnects, EventSendClientReport never writes through *)
(* a NULL tuple and nothing the event library hands out is leaked.         *)
THEOREM EventSafety == Spec => [](TypeOK /\ NoNullTuple /\ NoLeak)
<1>1. IInv => TypeOK /\ NoNullTuple /\ NoLeak
  <2> SUFFICES ASSUME IInv PROVE TypeOK /\ NoNullTuple /\ NoLeak
    OBVIOUS
  <2>1. delivered \in 0..MaxSends /\ sends \in 0..MaxSends
    BY EventAssumption DEF IInv
  <2>2. NoNullTuple /\ NoLeak
    BY DEF IInv, Good, Conn, NoNullTuple, NoLeak
  <2>. QED
    BY <2>1, <2>2, Zenon DEF IInv, Good, TypeOK
<1>. QED
  BY <1>1, InitIInv, NextIInv, PTL DEF Spec

(* Of EventSafety, on its own: the registration counter and the tuple     *)
(* counter of the event library always match the statics the client keeps  *)
(* (EventReinit, EventSendClientReport and their failure paths).           *)
THEOREM EventNoLeak == Spec => []NoLeak
BY EventSafety, PTL

(* Of EventSafety, on its own: the client's statics keep their types, the *)
(* report counters staying within MaxSends.                                *)
THEOREM EventTypeCorrect == Spec => []TypeOK
BY EventSafety, PTL


-----------------------------------------------------------------------------
(* Refinement.                                                             *)

(* EventInit from the first state: the client either keeps nothing or     *)
(* records a name, registering only when it has one.                       *)
LEMMA InitStep ==
  ASSUME IInv, EventInit
  PROVE  \/ UNCHANGED <<conn, eserver, delivered>>
         \/ /\ conn.eh = "null" /\ eserver = "null"
            /\ eserver' \in {"set", "null"}
            /\ conn'.eh = "live" => eserver' = "set"
            /\ UNCHANGED delivered
<1>1. conn.eh = "null" /\ eserver = "null" /\ UNCHANGED delivered
  BY DEF IInv, EventInit
<1>2. CASE UNCHANGED <<conn, eserver>>
  BY <1>1, <1>2
<1>3. CASE \E srv \in {"set", "null"} :
             eserver' = srv /\ \E r \in Reinit(conn, srv) : conn' = r.c
  <2>1. PICK srv \in {"set", "null"} :
          eserver' = srv /\ \E r \in Reinit(conn, srv) : conn' = r.c
    BY <1>3
  <2>2. PICK r \in Reinit(conn, srv) : conn' = r.c
    BY <2>1
  <2>3. r.c.eh = "live" => conn.eh = "live" \/ srv # "null"
    BY ReinitGood DEF IInv
  <2>. QED
    BY <1>1, <2>1, <2>2, <2>3
<1>. QED
  BY <1>2, <1>3 DEF EventInit

(* Every step of the client is a step of EventSession under the mapping  *)
(* Session, or leaves the session, the name and the reports as they were. *)
LEMMA StepRefines == IInv /\ [Next]_vars => [Session!ANext]_Session!avars
<1> SUFFICES ASSUME IInv, [Next]_vars PROVE [Session!ANext]_Session!avars
  OBVIOUS
<1>1. CASE EventInit
  <2>1. CASE UNCHANGED <<conn, eserver, delivered>>
    BY <2>1 DEF Session!avars
  <2>2. CASE /\ conn.eh = "null" /\ eserver = "null"
             /\ eserver' \in {"set", "null"}
             /\ conn'.eh = "live" => eserver' = "set"
             /\ UNCHANGED delivered
    BY <2>2 DEF Session!ANext, Session!AStart
  <2>. QED
    BY <1>1, <2>1, <2>2, InitStep
<1>2. CASE EventDeinit
  <2>1. conn'.eh = "null" /\ UNCHANGED <<eserver, delivered>>
    BY <1>2, DeinitGood DEF EventDeinit, IInv
  <2>. QED
    BY <2>1 DEF Session!ANext, Session!AClose
<1>3. CASE EventSendClientReport
  <2>1. /\ conn'.eh = "live" => eserver = "set"
        /\ delivered' = delivered \/ delivered' = delivered + 1
        /\ delivered' = delivered + 1 => conn'.eh = "live"
        /\ UNCHANGED eserver
    BY <1>3, SendStep
  <2>2. CASE conn'.eh = "live" /\ delivered' = delivered + 1
    BY <2>1, <2>2 DEF Session!ANext, Session!AReport, Session!Openable
  <2>3. CASE conn'.eh = "live" /\ delivered' = delivered
    BY <2>1, <2>3 DEF Session!ANext, Session!ANoReport, Session!Openable
  <2>4. CASE conn'.eh # "live"
    BY <2>1, <2>4 DEF Session!ANext, Session!AClose
  <2>. QED
    BY <2>1, <2>2, <2>3, <2>4
<1>4. CASE UNCHANGED vars
  BY <1>4 DEF vars, Session!avars
<1>. QED
  BY <1>1, <1>2, <1>3, <1>4 DEF Next

(* The client implements EventSession (ImplementsSession): a report is    *)
(* delivered only over a registration, a registration is made only with a *)
(* server name, and EventInit's name is set once, before any of them.      *)
THEOREM EventRefinesSession == Spec => ImplementsSession
<1>1. Init => Session!AInit
  BY DEF Init, Session!AInit
<1>2. Spec => []IInv
  BY InitIInv, NextIInv, PTL DEF Spec
<1>. QED
  BY <1>1, <1>2, StepRefines, PTL DEF Spec, ImplementsSession, Session!ASpec

=============================================================================
