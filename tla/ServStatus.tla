----------------------------- MODULE ServStatus -----------------------------
(***************************************************************************)
(* The status of the pod's service (pkg/serv): which changes setStatus     *)
(* allows and which statuses admit work.                                   *)
(***************************************************************************)

ServStatuses ==
    {"init", "preparing", "working", "paused", "stopping", "stopped", "cleaning"}

\* The statuses setStatus can move to, besides the present one.
Successors(from) ==
    CASE from = "init"      -> {"preparing"}
      [] from = "preparing" -> {"working", "paused", "stopping"}
      [] from = "working"   -> {"paused", "stopping", "cleaning"}
      [] from = "cleaning"  -> {"working", "paused", "stopping"}
      [] from = "paused"    -> {"working", "stopping", "cleaning"}
      [] from = "stopping"  -> {"stopped"}
      [] from = "stopped"   -> {}

\* setStatus returns no error.
CanSet(from, to) == to = from \/ to \in Successors(from)

\* Requests may be served, or the service only paused.
WorkStatus(status) == status \in {"working", "paused"}

=============================================================================
