---------------------------- MODULE EventSession ----------------------------
(***************************************************************************)
(* What the event-server client of frisbee.redux promises its caller,      *)
(* without the handles, tuples and notifications it is built from: a       *)
(* client learns the server's name once, holds at most one session with   *)
(* it, and delivers a report only over a session, which it opens on demand *)
(* when it has a name and which a lost report closes.                      *)
(***************************************************************************)
EXTENDS Naturals

VARIABLES
  server,     \* "none" or "known": whether the client has a server name
  session,    \* "closed" or "open"
  delivered   \* reports the server has accepted

avars == <<server, session, delivered>>

(* A session can be opened only with a known server, or kept. *)
Openable == {"closed"} \cup (IF server = "known" \/ session = "open" THEN {"open"} ELSE {})

AInit ==
  /\ server = "none"
  /\ session = "closed"
  /\ delivered = 0

(* The client is given a server name (or fails to keep one) and may open   *)
(* a session with it at once.                                              *)
AStart ==
  /\ server = "none" /\ session = "closed"
  /\ server' \in {"none", "known"}
  /\ session' \in {"closed"} \cup (IF server' = "known" THEN {"open"} ELSE {})
  /\ UNCHANGED delivered

(* A report is delivered over the session, opened for it if need be. *)
AReport ==
  /\ "open" \in Openable
  /\ session' = "open"
  /\ delivered' = delivered + 1
  /\ UNCHANGED server

(* A report is not delivered: the session may have been opened for it, or *)
(* the report was lost and the session closed.                             *)
ANoReport ==
  /\ session' \in Openable
  /\ UNCHANGED <<server, delivered>>

AClose ==
  /\ session' = "closed"
  /\ UNCHANGED <<server, delivered>>

ANext == AStart \/ AReport \/ ANoReport \/ AClose

ASpec == AInit /\ [][ANext]_avars

=============================================================================
