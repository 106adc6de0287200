------------------------- MODULE MCPrivilegedUpdate -------------------------
(***************************************************************************)
(* PrivilegedUpdate for TLC: a good triple of documents, the same documents *)
(* under a second request id, and triples with one defect each.            *)
(***************************************************************************)
EXTENDS PrivilegedUpdate

Update == [revision |-> 1, product |-> "app", release |-> 1, machine |-> "windows",
           channel |-> "stable", signed |-> TRUE]
Target == [revision |-> 1, product |-> "app", machine |-> "windows", place |-> "home",
           signed |-> TRUE]
Request == [id |-> "first", product |-> "app", release |-> 1, machine |-> "windows",
            place |-> "home", update |-> Update, target |-> Target,
            issued |-> 1, expires |-> 2, signed |-> TRUE]

Present(r, u, t) == [request |-> r, update |-> u, target |-> t, inside |-> TRUE, safe |-> TRUE]
Bind(u, t) == Present([Request EXCEPT !.update = u, !.target = t], u, t)

Good == Bind(Update, Target)

BadRequests ==
  {[Request EXCEPT !.signed = FALSE], [Request EXCEPT !.expires = 1],
   [Request EXCEPT !.issued = 0], [Request EXCEPT !.product = "other"],
   [Request EXCEPT !.release = 2], [Request EXCEPT !.machine = "other"],
   [Request EXCEPT !.place = "elsewhere"],
   [Request EXCEPT !.update.revision = 0], [Request EXCEPT !.target.revision = 2]}
BadUpdates ==
  {[Update EXCEPT !.signed = FALSE], [Update EXCEPT !.channel = "beta"],
   [Update EXCEPT !.revision = 0], [Update EXCEPT !.product = "other"]}
BadTargets ==
  {[Target EXCEPT !.signed = FALSE], [Target EXCEPT !.product = "other"],
   [Target EXCEPT !.machine = "linux"]}

AllPresented ==
  {Good, [Good EXCEPT !.request.id = "second"], [Good EXCEPT !.safe = FALSE],
   [Good EXCEPT !.inside = FALSE]}
    \cup {Present(r, Update, Target) : r \in BadRequests}
    \cup {Bind(u, Target) : u \in BadUpdates}
    \cup {Bind(Update, t) : t \in BadTargets}
    \cup {[Present([Request EXCEPT !.place = "elsewhere"], Update,
                   [Target EXCEPT !.place = "elsewhere"])
             EXCEPT !.request.target.place = "elsewhere"]}

AllRequests == {i.request : i \in AllPresented}
AllUpdates  == {i.update : i \in AllPresented}
AllTargets  == {i.target : i \in AllPresented}

\* The update policy of the good triple gets stale, or the target policy.
Recorded == {[update |-> 1, target |-> 0], [update |-> 0, target |-> 1]}
Homes    == {"home"}
WindowsMachines == {"windows"}
=============================================================================
