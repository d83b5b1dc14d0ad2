------------------------------- MODULE Requests -------------------------------
(***************************************************************************)
(* The requests a server works on.  A handler is asynchronous: it runs     *)
(* from one database call to the next, and between two of its calls those  *)
(* of other handlers may run.  A slot holds one such request: what it is,  *)
(* where it is and what it has read so far.                                *)
(***************************************************************************)
EXTENDS Naturals, FiniteSets

CONSTANTS
  Slot,            \* requests that may be in flight at once
  MaxRequests,     \* bound: requests of a behaviour in which none overlap
  MaxOverlapping   \* bound: requests of a behaviour in which some overlap

ASSUME SlotsFinite == IsFiniteSet(Slot)
ASSUME RequestBounds == MaxRequests \in Nat /\ MaxOverlapping \in Nat

VARIABLES
  req,      \* req[s]: the request of slot s and what it has read so far
  started,  \* requests started so far
  overlap   \* whether two requests were ever in flight together

InitRequests(idle) ==
  /\ req = [s \in Slot |-> idle]
  /\ started = 0
  /\ overlap = FALSE

Busy(s) == req[s].op # "idle"

\* A request arrives.
Accept(s, request) ==
  /\ ~Busy(s)
  /\ started' = started + 1
  /\ overlap' = (overlap \/ \E o \in Slot \ {s} : Busy(o))
  /\ started' <= IF overlap' THEN MaxOverlapping ELSE MaxRequests
  /\ req' = [req EXCEPT ![s] = request]

\* Slot s is at step a of operation op.
Running(s, op, a) == req[s].op = op /\ req[s].at = a

Set(s, request) == req' = [req EXCEPT ![s] = request] /\ UNCHANGED <<started, overlap>>
Goto(s, a) == Set(s, [req[s] EXCEPT !.at = a])

\* Without an overlap there is one request.
Alone == ~overlap => \A s, o \in Slot : Busy(s) /\ Busy(o) => s = o

RequestsOK(Request) ==
  /\ req \in [Slot -> Request]
  /\ started \in Nat
  /\ overlap \in BOOLEAN
=============================================================================
