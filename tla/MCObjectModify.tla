--------------------------- MODULE MCObjectModify ---------------------------
(* Model-checking instance of ObjectModify on one DNSLock object: the lock *)
(* refresh setting status.state to ready, SetFinalizer, and two lock       *)
(* clients that create or renew the object with their own spec.timestamp. *)
(* The finalizer and the clients share the non-status subresource.  The   *)
(* object exists when the writers start, or is still to be created.       *)
EXTENDS ObjectModify

MCWriters == {"refresh", "finalizer", "clientA", "clientB"}
MCFields == {"state", "finalizers", "timestamp"}
MCStatusFields == {"state"}
MCCreates == {"clientA", "clientB"}
MCField == [w \in MCWriters |->
              CASE w = "refresh" -> "state"
                [] w = "finalizer" -> "finalizers"
                [] w \in MCCreates -> "timestamp"]
MCValue == [w \in MCWriters |->
              CASE w = "refresh" -> "ready"
                [] w = "finalizer" -> "present"
                [] w = "clientA" -> "t1"
                [] w = "clientB" -> "t2"]
MCValues == {"stale", "ready", "absent", "present", "t0", "t1", "t2"}
MCInit0 == [x \in MCFields |->
              CASE x = "state" -> "stale"
                [] x = "finalizers" -> "absent"
                [] x = "timestamp" -> "t0"]

=============================================================================
